---------------------------- MODULE Spec2Model ----------------------------
(***************************************************************************)
(* A model of the Flux backend: the code generator, the HTTP and IPC       *)
(* request layers, the log stream, the p5 and Manim renderers and the      *)
(* tool detectors.  Each part is modelled from its source file; the        *)
(* specifications at the end run the parts separately.                     *)
(***************************************************************************)
EXTENDS Integers, Sequences, FiniteSets, TLC

VARIABLES
    jobs,      \* index.js `jobs`: runId -> [logs, status, videoPath]
    req,       \* per request: position of its handler / render task
    stream,    \* per client: the state of its GET /api/logs response
    p5,        \* one generateWithP5 call
    manim,     \* one generateWithManim call
    fs,        \* the files under MEDIA_DIR seen by the Manim renderer
    det,       \* the tool detectors: caches, environment, last call
    health     \* one performHealthCheck call and the machine it probes

vars == <<jobs, req, stream, p5, manim, fs, det, health>>

(***************************************************************************)
(* Bounds of the model.                                                    *)
(***************************************************************************)
MaxJobs == 2          \* requests received in a run
MaxClients == 1       \* log-stream clients
MaxRenderLogs == 1    \* log lines a renderer emits while it runs
MaxCodeLen == 3       \* tokens in a text returned by the generation API
MaxDuration == 2      \* largest duration (seconds) passed to generateWithP5
MaxChunks == 1        \* stderr chunks the Manim process writes
MaxCalls == 2         \* detector calls in a run
MaxInstalled == 2     \* executables present at one time, for the detectors
MaxPending == 2       \* detector calls suspended at an await at one time

RunIds == 1..MaxJobs
Clients == 1..MaxClients

\* The runId of the modelled renderer call.
MRun == CHOOSE r \in RunIds : \A q \in RunIds : r <= q

(***************************************************************************)
(* Generated text.  A text is a sequence of tokens; each token stands for  *)
(* a piece of text with the lexical properties the code looks at.          *)
(***************************************************************************)
FENCE == "<fence>"
WS == " "
LANG == "python"
TEXT == "x = 1"
REST == "("
SETUP == "function setup()"
CLASS == "class GeneratedScene"

BannedTokens ==
    { "Axes(", "Surface(", "ParametricFunction(", "np.math",
      "set_shade_in_scene", "MathTex(", "Tex(", "import np", "import numpy" }

Tokens == {FENCE, WS, LANG, TEXT, SETUP, CLASS} \cup BannedTokens

\* Tokens made of word characters only (\w+ matches them whole).
PureWord(t) == t \in {LANG, "set_shade_in_scene"}

\* Tokens that begin with a word character.
WordStart(t) == t \notin {FENCE, WS, REST}

RECURSIVE DropLeadingWs(_)
DropLeadingWs(s) ==
    IF s # <<>> /\ Head(s) = WS THEN DropLeadingWs(Tail(s)) ELSE s

RECURSIVE DropTrailingWs(_)
DropTrailingWs(s) ==
    IF s # <<>> /\ s[Len(s)] = WS
    THEN DropTrailingWs(SubSeq(s, 1, Len(s) - 1))
    ELSE s

\* String.prototype.trim
Trim(s) == DropTrailingWs(DropLeadingWs(s))

\* What the opening-fence expression of cleanCode removes after the three
\* backquotes: a run of word
\* characters, then white space that follows it directly.
RECURSIVE EatWord(_)
EatWord(s) ==
    IF s = <<>> THEN s
    ELSE IF PureWord(Head(s)) THEN EatWord(Tail(s))
    ELSE IF WordStart(Head(s)) THEN <<REST>> \o Tail(s)
    ELSE DropLeadingWs(s)

StripOpeningFence(s) ==
    IF s # <<>> /\ Head(s) = FENCE THEN EatWord(Tail(s)) ELSE s

\* What the closing-fence expression removes: a fence at the very end and the white
\* space before it.
StripClosingFence(s) ==
    IF s # <<>> /\ s[Len(s)] = FENCE
    THEN DropTrailingWs(SubSeq(s, 1, Len(s) - 1))
    ELSE s

cleanCode(raw) == StripClosingFence(StripOpeningFence(Trim(raw)))

\* bannedPatterns, in list order, as the tokens each regular expression
\* matches.
bannedPatterns ==
    << {"Axes("}, {"Surface("}, {"ParametricFunction("}, {"np.math"},
       {"set_shade_in_scene"}, {"MathTex("}, {"MathTex(", "Tex("},
       {"import np"}, {"import numpy"} >>

Range(s) == { s[i] : i \in 1..Len(s) }

PatternTest(i, code) == Range(code) \cap bannedPatterns[i] # {}

\* A validator that lets every code through.
validateManimCodeNone(code) == 0

\* validateManimCode: 0 when no pattern matches, else the index of the
\* first pattern of the list that does (the one named in the error).
validateManimCode(code) ==
    LET hits == { i \in 1..Len(bannedPatterns) : PatternTest(i, code) }
    IN  IF hits = {} THEN 0
        ELSE CHOOSE i \in hits : \A j \in hits : i <= j

ErrP5Shape == "Invalid p5.js generation: must start with 'function setup()'"
ErrManimShape == "Invalid Manim generation: must contain 'class GeneratedScene'"
ErrBanned == "Generated Manim code contains prohibited construct"
ErrEngine == "Invalid engine in generateCode"
ErrApi == "text generation request failed"
NoError == ""

\* A shape test that accepts every text.
StartsWithAnything(code) == TRUE

\* trimmed.startsWith('function setup()')
StartsWithSetup(code) ==
    LET t == Trim(code) IN t # <<>> /\ Head(t) = SETUP

\* validateGeneratedCode: the error it throws, or NoError.
validateGeneratedCode(code, engine) ==
    IF engine = "p5" /\ ~StartsWithSetup(code) THEN ErrP5Shape
    ELSE IF engine = "manim" /\ CLASS \notin Range(Trim(code)) THEN ErrManimShape
    ELSE NoError

\* The part of generateCode after the API has answered with `raw`.
generateCodeAfterResponse(raw, engine) ==
    LET cleaned == cleanCode(raw)
        banned == IF engine = "manim" THEN validateManimCode(cleaned) ELSE 0
    IN  IF banned # 0
        THEN [error |-> ErrBanned, pattern |-> banned, code |-> <<>>]
        ELSE IF validateGeneratedCode(cleaned, engine) # NoError
        THEN [error |-> validateGeneratedCode(cleaned, engine), pattern |-> 0,
              code |-> <<>>]
        ELSE [error |-> NoError, pattern |-> 0, code |-> cleaned]

RECURSIVE SeqsUpTo(_, _)
SeqsUpTo(S, n) ==
    IF n = 0 THEN {<<>>}
    ELSE LET shorter == SeqsUpTo(S, n - 1)
         IN  shorter \cup { Append(s, t) : s \in shorter, t \in S }

\* Texts the generation API may answer with.
Responses == SeqsUpTo(Tokens, MaxCodeLen)

(***************************************************************************)
(* Log lines, paths and job records.                                       *)
(***************************************************************************)
\* A log line: its text (tag and argument), the request whose code
\* produced it (src) and, for renderer output, its number.
Line(tag, r, arg, n) == [tag |-> tag, src |-> r, arg |-> arg, n |-> n]

\* A path component: <runId><name>, or a fixed name when id = 0.
Comp(id, name) == [id |-> id, name |-> name]

\* generateWithP5's outputPath and generateWithManim's finalVideoPath,
\* relative to MEDIA_DIR.
P5OutputPath(r) == <<Comp(r, ""), Comp(0, "animation.mp4")>>
ManimFinalPath(r) == <<Comp(r, ".mp4")>>

\* path.basename
Basename(path) == path[Len(path)]

NullVideo == [prefix |-> "null", file |-> Comp(0, "")]
\* `/videos/${filename}`
VideoUrl(path) == [prefix |-> "/videos/", file |-> Basename(path)]

ErrChrome == "Chrome executable not found"
ErrManim == "Manim executable not found"
ErrRender == "render failed"
ErrStart == "Failed to start Manim"
ErrEngineRender == "Invalid engine during render"
ErrEngineIpc == "Invalid engine: <engine>"

Engines == {"p5", "manim", "other"}

IdleReq(layer) ==
    [pc |-> "idle", layer |-> layer, engine |-> "none", code |-> <<>>,
     response |-> "none", error |-> NoError, events |-> <<>>,
     calls |-> <<>>, apiRequests |-> 0, spawned |-> 0, rlogs |-> 0,
     closePending |-> FALSE, result |-> <<>>,
     answered |-> FALSE, raw |-> <<>>]

OffReq == [IdleReq("http") EXCEPT !.pc = "off"]

\* A logger that writes to the entry of the newest job.
JobsPushNewest(r, lines) ==
    IF req[r].layer = "http"
    THEN LET n == CHOOSE q \in DOMAIN jobs : \A p \in DOMAIN jobs : p <= q
         IN  [jobs EXCEPT ![n].logs = @ \o lines]
    ELSE jobs

\* A logger that keeps only the newest lines.
JobsOverwrite(r, lines) ==
    IF req[r].layer = "http"
    THEN [jobs EXCEPT ![r].logs = lines]
    ELSE jobs

\* logs.push(...) for the HTTP layer, event.sender.send('render-log', ...)
\* for the IPC layer.
JobsPush(r, lines) ==
    IF req[r].layer = "http"
    THEN [jobs EXCEPT ![r].logs = @ \o lines]
    ELSE jobs

EventsPush(r, lines) ==
    IF req[r].layer = "ipc" THEN req[r].events \o lines ELSE req[r].events

serverRest == <<p5, manim, fs, det, health>>

(***************************************************************************)
(* The request handlers: app.post('/api/generate') and                     *)
(* ipcMain.handle('generate-video').                                       *)
(***************************************************************************)
LineStarted(r) ==
    IF req[r].layer = "http"
    THEN Line("Code generation started", r, "", 0)
    ELSE Line("Code generation started...", r, "", 0)

\* The catch block of the handler: HTTP answers 400 and leaves the job as it
\* is; IPC pushes the error line and rethrows.
CodegenFailed(r, rq, msg) ==
    /\ req' = [req EXCEPT ![r] =
                 [rq EXCEPT !.pc = "done",
                            !.error = msg,
                            !.response = IF rq.layer = "http" THEN "400" ELSE "rejected",
                            !.events = IF rq.layer = "ipc"
                                       THEN @ \o <<Line("Error", r, msg, 0)>>
                                       ELSE @]]

\* A generateCode that sends its API request whatever the engine is.
ReceiveAnyEngine(r, e) ==
    /\ req[r].pc = "idle"
    /\ \A q \in RunIds : q < r => req[q].pc # "idle"
    /\ LET rq == [req[r] EXCEPT !.engine = e,
                                !.events = EventsPush(r, <<LineStarted(r)>>)]
       IN  /\ jobs' = IF rq.layer = "http"
                      THEN [q \in DOMAIN jobs \cup {r} |->
                              IF q = r
                              THEN [logs |-> <<LineStarted(r)>>,
                                    status |-> "pending",
                                    videoPath |-> NullVideo]
                              ELSE jobs[q]]
                      ELSE jobs
           /\ req' = [req EXCEPT ![r] =
                        [rq EXCEPT !.pc = "codegen", !.apiRequests = @ + 1]]
    /\ UNCHANGED <<stream, serverRest>>

\* The request arrives: the job entry is created, the first line is pushed
\* and generateCode runs up to its API request (or throws on the engine).
Receive(r, e) ==
    /\ req[r].pc = "idle"
    /\ \A q \in RunIds : q < r => req[q].pc # "idle"
    /\ LET rq == [req[r] EXCEPT !.engine = e,
                                !.events = EventsPush(r, <<LineStarted(r)>>)]
       IN  /\ jobs' = IF rq.layer = "http"
                      THEN [q \in DOMAIN jobs \cup {r} |->
                              IF q = r
                              THEN [logs |-> <<LineStarted(r)>>,
                                    status |-> "pending",
                                    videoPath |-> NullVideo]
                              ELSE jobs[q]]
                      ELSE jobs
           /\ IF e \in {"p5", "manim"}
              THEN req' = [req EXCEPT ![r] =
                             [rq EXCEPT !.pc = "codegen", !.apiRequests = @ + 1]]
              ELSE CodegenFailed(r, rq, ErrEngine)
    /\ UNCHANGED <<stream, serverRest>>

\* The synchronous start of a renderer call: generateWithManim writes the
\* script and logs before it awaits detectManim; generateWithP5 logs
\* nothing before it awaits detectChrome.
RendererPrefix(r, e) ==
    IF e = "manim" THEN <<Line("Manim script written", r, "", 0)>> ELSE <<>>

RendererFn(e) == IF e = "p5" THEN "generateWithP5" ELSE "generateWithManim"

\* The API answers with a text: the rest of generateCode, then the rest of
\* the handler's try block.
CodegenReturn(r, texts) ==
    /\ req[r].pc = "codegen"
    /\ \E raw \in texts :
         LET g == generateCodeAfterResponse(raw, req[r].engine)
             e == req[r].engine
         IN  IF g.error # NoError
             THEN /\ CodegenFailed(r, [req[r] EXCEPT !.answered = TRUE, !.raw = raw],
                                   g.error)
                  /\ jobs' = jobs
             ELSE IF req[r].layer = "http"
             THEN /\ jobs' = JobsPush(r, <<Line("Code generation completed", r, "", 0)>>)
                  /\ req' = [req EXCEPT ![r].pc = "scheduled",
                                        ![r].answered = TRUE,
                                        ![r].raw = raw,
                                        ![r].code = g.code,
                                        ![r].response = "runId"]
             ELSE IF e \notin {"p5", "manim"}
             THEN /\ jobs' = jobs
                  /\ CodegenFailed(r,
                        [req[r] EXCEPT
                           !.answered = TRUE, !.raw = raw, !.code = g.code,
                           !.events = @ \o
                              <<Line("Code generation finished", r, "", 0),
                                Line("Video rendering started using", r, e, 0)>>],
                        ErrEngineIpc)
             ELSE /\ jobs' = jobs
                  /\ req' = [req EXCEPT
                        ![r].pc = "detect",
                        ![r].answered = TRUE,
                        ![r].raw = raw,
                        ![r].code = g.code,
                        ![r].calls = @ \o <<[fn |-> RendererFn(e), code |-> g.code]>>,
                        ![r].events = @ \o
                            <<Line("Code generation finished", r, "", 0),
                              Line("Video rendering started using", r, e, 0)>>
                            \o RendererPrefix(r, e)]
    /\ UNCHANGED <<stream, serverRest>>

\* The API request fails.
CodegenThrow(r) ==
    /\ req[r].pc = "codegen"
    /\ CodegenFailed(r, req[r], ErrApi)
    /\ UNCHANGED <<jobs, stream, serverRest>>

\* The setImmediate callback of the HTTP handler starts: it pushes the
\* 'Rendering started' line and calls the renderer of the engine.
RenderStart(r) ==
    /\ req[r].pc = "scheduled"
    /\ LET e == req[r].engine
       IN  IF e \in {"p5", "manim"}
           THEN /\ jobs' = JobsPush(r, <<Line("Rendering started using", r, e, 0)>>
                                       \o RendererPrefix(r, e))
                /\ req' = [req EXCEPT
                      ![r].pc = "detect",
                      ![r].calls = @ \o <<[fn |-> RendererFn(e), code |-> req[r].code]>>]
           ELSE /\ jobs' = [JobsPush(r, <<Line("Rendering started using", r, e, 0),
                                          Line("Error", r, ErrEngineRender, 0)>>)
                              EXCEPT ![r].status = "done"]
                /\ req' = [req EXCEPT ![r].pc = "done", ![r].error = ErrEngineRender]
    /\ UNCHANGED <<stream, serverRest>>

(***************************************************************************)
(* The renderer as the request layer sees it: log lines through logFn, one *)
(* settlement of the returned promise, and for Manim the 'close' event     *)
(* that Node emits after an 'error' event of the child process.            *)
(***************************************************************************)
\* The renderer's promise settles and the awaiting handler continues: the
\* lines the renderer logged in the same turn, then the handler's own
\* success or catch block.
Settled(r, lines, ok, path, msg, cp) ==
    LET rq == req[r]
        last == IF rq.layer = "http"
                THEN IF ok THEN Line("Rendering complete", r, "", 0)
                     ELSE Line("Error", r, msg, 0)
                ELSE IF ok THEN Line("Video generation completed successfully", r, "", 0)
                     ELSE Line("Error", r, msg, 0)
    IN  /\ jobs' = IF rq.layer = "http"
                   THEN [jobs EXCEPT
                           ![r].logs = @ \o lines \o <<last>>,
                           ![r].status = "done",
                           ![r].videoPath = IF ok THEN VideoUrl(path) ELSE @]
                   ELSE jobs
        /\ req' = [req EXCEPT ![r] =
                     [rq EXCEPT
                        !.pc = "done",
                        !.error = IF ok THEN NoError ELSE msg,
                        !.result = IF ok THEN path ELSE <<>>,
                        !.closePending = cp,
                        !.response = IF rq.layer = "http" THEN @
                                     ELSE IF ok THEN "success" ELSE "rejected",
                        !.events = IF rq.layer = "ipc" THEN @ \o lines \o <<last>>
                                   ELSE @]]

\* detectChrome / detectManim throws inside the renderer.
DetectFail(r) ==
    /\ req[r].pc = "detect"
    /\ IF req[r].engine = "p5"
       THEN Settled(r, <<Line("Chrome detection failed", r, ErrChrome, 0)>>,
                    FALSE, <<>>, ErrChrome, FALSE)
       ELSE Settled(r, <<>>, FALSE, <<>>, ErrManim, FALSE)
    /\ UNCHANGED <<stream, serverRest>>

\* The detector returns: the p5 renderer launches the browser, the Manim
\* renderer spawns the CLI.
Spawn(r) ==
    /\ req[r].pc = "detect"
    /\ LET lines == IF req[r].engine = "p5"
                    THEN <<Line("Found Chrome at", r, "", 0)>>
                    ELSE <<Line("Manim executable found", r, "", 0),
                           Line("Starting Manim rendering...", r, "", 0)>>
       IN  /\ jobs' = JobsPush(r, lines)
           /\ req' = [req EXCEPT ![r].pc = "running",
                                 ![r].spawned = @ + 1,
                                 ![r].events = EventsPush(r, lines)]
    /\ UNCHANGED <<stream, serverRest>>

\* logFn called by the running renderer (a captured frame, an ffmpeg or
\* Manim output chunk).
RendererLog(r) ==
    /\ req[r].pc = "running"
    /\ req[r].rlogs < MaxRenderLogs
    /\ LET lines == <<Line("renderer output", r, req[r].engine, req[r].rlogs + 1)>>
       IN  /\ jobs' = JobsPush(r, lines)
           /\ req' = [req EXCEPT ![r].rlogs = @ + 1,
                                 ![r].events = EventsPush(r, lines)]
    /\ UNCHANGED <<stream, serverRest>>

RendererResult(r) ==
    IF req[r].engine = "p5" THEN P5OutputPath(r) ELSE ManimFinalPath(r)

\* The renderer resolves with the path of its video.
RendererResolve(r) ==
    /\ req[r].pc = "running"
    /\ Settled(r, <<Line("renderer finished", r, req[r].engine, 0)>>,
               TRUE, RendererResult(r), NoError, FALSE)
    /\ UNCHANGED <<stream, serverRest>>

\* The renderer rejects after its process has closed (encoder or Manim exit
\* code, missing output).
RendererReject(r) ==
    /\ req[r].pc = "running"
    /\ Settled(r, IF req[r].engine = "manim"
                  THEN <<Line("Rendering failed with exit code", r, "", 0)>>
                  ELSE <<>>,
               FALSE, <<>>, ErrRender, FALSE)
    /\ UNCHANGED <<stream, serverRest>>

\* The Manim child process emits 'error': the handler logs and rejects;
\* Node emits 'close' for that process afterwards.
ProcError(r) ==
    /\ req[r].pc = "running"
    /\ req[r].engine = "manim"
    /\ Settled(r, <<Line("Process error", r, "", 0)>>,
               FALSE, <<>>, ErrStart, TRUE)
    /\ UNCHANGED <<stream, serverRest>>

\* The 'close' event after an 'error': the nonzero-exit branch of the close
\* handler logs through logFn; its reject has no effect.
CloseAfterErrorLines(r) ==
    << Line("Rendering failed with exit code", r, "", 0),
       Line("Full error output:", r, "", 0),
       Line("stderr", r, "", 0) >>

LateClose(r) ==
    /\ req[r].pc = "done"
    /\ req[r].closePending
    /\ jobs' = JobsPush(r, CloseAfterErrorLines(r))
    /\ req' = [req EXCEPT ![r].closePending = FALSE,
                          ![r].events = EventsPush(r, CloseAfterErrorLines(r))]
    /\ UNCHANGED <<stream, serverRest>>

(***************************************************************************)
(* GET /api/logs: the server-sent event stream of one client.              *)
(***************************************************************************)
NoLine == Line("", 0, "", 0)
DataEvent(l) == [ev |-> "data", line |-> l, videoPath |-> NullVideo]
DoneEvent(v) == [ev |-> "done", line |-> NoLine, videoPath |-> v]

NoStream ==
    [state |-> "none", runId |-> 0, lastIndex |-> 0, out |-> <<>>,
     openedPending |-> FALSE]

\* sendLogs: writes allLogs[lastIndex..] and advances lastIndex.
sendLogs(st, allLogs) ==
    [st EXCEPT
       !.out = @ \o [i \in 1..(Len(allLogs) - st.lastIndex) |->
                        DataEvent(allLogs[st.lastIndex + i])],
       !.lastIndex = IF st.lastIndex < Len(allLogs) THEN Len(allLogs) ELSE @]

\* The request handler up to the first poll: 404 for an unknown runId,
\* else the headers and the lines so far.
OpenStream(c, id) ==
    /\ stream[c].state = "none"
    /\ IF id \notin DOMAIN jobs
       THEN stream' = [stream EXCEPT ![c].state = "notfound", ![c].runId = id]
       ELSE stream' = [stream EXCEPT ![c] =
                sendLogs([NoStream EXCEPT
                            !.state = "open",
                            !.runId = id,
                            !.openedPending = (jobs[id].status = "pending")],
                         jobs[id].logs)]
    /\ UNCHANGED <<jobs, req, serverRest>>

\* A callback that writes the done event and leaves the timer running.
PollTickNoEnd(c) ==
    /\ stream[c].state = "open"
    /\ LET id == stream[c].runId
           sent == sendLogs(stream[c], jobs[id].logs)
       IN  stream' = [stream EXCEPT ![c] =
                IF jobs[id].status = "done"
                THEN [sent EXCEPT !.out = @ \o <<DoneEvent(jobs[id].videoPath)>>]
                ELSE sent]
    /\ UNCHANGED <<jobs, req, serverRest>>

\* One firing of the setInterval callback.
PollTick(c) ==
    /\ stream[c].state = "open"
    /\ LET id == stream[c].runId
           sent == sendLogs(stream[c], jobs[id].logs)
       IN  stream' = [stream EXCEPT ![c] =
                IF jobs[id].status = "done"
                THEN [sent EXCEPT !.out = @ \o <<DoneEvent(jobs[id].videoPath)>>,
                                  !.state = "ended"]
                ELSE sent]
    /\ UNCHANGED <<jobs, req, serverRest>>

\* The client disconnects: req.on('close') clears the interval.
ClientClose(c) ==
    /\ stream[c].state = "open"
    /\ stream' = [stream EXCEPT ![c].state = "closed"]
    /\ UNCHANGED <<jobs, req, serverRest>>

(***************************************************************************)
(* Specifications of the request layer.                                    *)
(***************************************************************************)
\* A valid sketch, a valid scene, a scene with a banned construct and a text
\* that is neither: one answer of each kind for the runs with several jobs.
SampleResponses == { <<SETUP>>, <<CLASS>>, <<CLASS, "Axes(">>, <<TEXT>> }

P5Idle == [pc |-> "off"]
ManimIdle == [pc |-> "off"]
FsIdle == <<>>
DetIdle == [pc |-> "off"]
HealthIdle == [pc |-> "off"]

RestIdle ==
    /\ p5 = P5Idle
    /\ manim = ManimIdle
    /\ fs = FsIdle
    /\ det = DetIdle
    /\ health = HealthIdle

RequestStep(r, texts) ==
    \/ \E e \in Engines : Receive(r, e)
    \/ CodegenReturn(r, texts)
    \/ CodegenThrow(r)
    \/ RenderStart(r)
    \/ DetectFail(r)
    \/ Spawn(r)
    \/ RendererLog(r)
    \/ RendererResolve(r)
    \/ RendererReject(r)
    \/ ProcError(r)
    \/ LateClose(r)

\* The HTTP server: several jobs and log streams.
InitServer ==
    /\ jobs = <<>>
    /\ req = [r \in RunIds |-> IdleReq("http")]
    /\ stream = [c \in Clients |-> NoStream]
    /\ RestIdle

NextServer ==
    \/ \E r \in RunIds : RequestStep(r, SampleResponses)
    \/ \E c \in Clients, id \in RunIds : OpenStream(c, id)
    \/ \E c \in Clients : PollTick(c)
    \/ \E c \in Clients : ClientClose(c)

SpecServer == InitServer /\ [][NextServer]_vars

\* One request through either layer, with every answer of the API.
InitRequest ==
    /\ jobs = <<>>
    /\ \E l \in {"http", "ipc"} :
         req = [r \in RunIds |-> IF r = 1 THEN IdleReq(l) ELSE OffReq]
    /\ stream = [c \in Clients |-> NoStream]
    /\ RestIdle

NextRequest == RequestStep(1, Responses)

SpecRequest == InitRequest /\ [][NextRequest]_vars

\* The scheduling of the event loop: a queued callback runs, the API and
\* the detectors answer, a spawned renderer settles, Node emits 'close'
\* after 'error', and the poll timer keeps firing.  Nothing forces a new
\* request, a new stream, a disconnect or more renderer output.
FairSpecServer ==
    /\ SpecServer
    /\ \A r \in RunIds :
         /\ WF_vars(CodegenReturn(r, SampleResponses) \/ CodegenThrow(r))
         /\ WF_vars(RenderStart(r))
         /\ WF_vars(DetectFail(r) \/ Spawn(r))
         /\ WF_vars(RendererResolve(r) \/ RendererReject(r) \/ ProcError(r))
         /\ WF_vars(LateClose(r))
    /\ \A c \in Clients : WF_vars(PollTick(c))

(***************************************************************************)
(* Claims about code generation in the request layer.                      *)
(***************************************************************************)
\* The API has answered request r, whose engine is e.
Answered(r, e) == req[r].answered /\ req[r].engine = e

\* Nothing was rendered for request r: no renderer was called and no
\* browser or Manim CLI was started.
NothingRendered(r) ==
    /\ req[r].calls = <<>>
    /\ req[r].spawned = 0
    /\ req[r].pc = "done"
    /\ req[r].result = <<>>

\* C5: when the cleaned text of a Manim request matches a banned pattern,
\* generateCode throws a validation error and, in the HTTP and the IPC
\* layer alike, no renderer is called and no Manim CLI is spawned.
C5_BannedNeverRendered ==
    \A r \in RunIds :
        ( /\ Answered(r, "manim")
          /\ \E i \in 1..Len(bannedPatterns) : PatternTest(i, cleanCode(req[r].raw)) )
        => /\ req[r].error = ErrBanned
           /\ NothingRendered(r)

\* A Manim request answered with a scene of the required shape that uses
\* a banned construct after other text, refused.
C5_Witness ==
    \E r \in RunIds :
        /\ Answered(r, "manim")
        /\ CLASS \in Range(cleanCode(req[r].raw))
        /\ validateManimCode(cleanCode(req[r].raw)) # 0
        /\ Head(cleanCode(req[r].raw)) \notin BannedTokens
        /\ req[r].layer = "ipc"
        /\ req[r].pc = "done"
        /\ req[r].error = ErrBanned

\* C6: when the cleaned text of a p5 request does not begin with
\* 'function setup()', generateCode throws and generateWithP5 is never
\* called with that code, in the HTTP and the IPC layer alike.
C6_ShapelessNeverRendered ==
    \A r \in RunIds :
        ( /\ Answered(r, "p5")
          /\ \/ cleanCode(req[r].raw) = <<>>
             \/ Head(cleanCode(req[r].raw)) # SETUP )
        => /\ req[r].error = ErrP5Shape
           /\ NothingRendered(r)

\* A p5 request answered with a fenced text that has the setup function
\* after other text, refused.
C6_Witness ==
    \E r \in RunIds :
        /\ Answered(r, "p5")
        /\ req[r].raw # <<>>
        /\ Head(req[r].raw) = FENCE
        /\ SETUP \in Range(cleanCode(req[r].raw))
        /\ Head(cleanCode(req[r].raw)) # SETUP
        /\ req[r].layer = "http"
        /\ req[r].pc = "done"
        /\ req[r].error = ErrP5Shape

(***************************************************************************)
(* Claims about the HTTP server.                                           *)
(***************************************************************************)
HttpRequests == { r \in RunIds : req[r].layer = "http" /\ req[r].pc \notin {"idle", "off"} }

\* The request handler has answered and no task of the request is left.
Finished(r) == req[r].pc = "done" /\ ~req[r].closePending

\* C1: every POST /api/generate with engine p5 or manim creates one job
\* entry, whose status goes from pending to done exactly once and never
\* back, also when code generation or the render fails: the entry exists
\* from receipt on, a request with nothing left to run has a done job, and
\* no step takes a done job back to pending.
C1_JobDoneExactlyOnce ==
    /\ [](\A r \in HttpRequests :
            req[r].engine \in {"p5", "manim"} =>
              /\ r \in DOMAIN jobs
              /\ Finished(r) => jobs[r].status = "done")
    /\ [][\A r \in DOMAIN jobs :
            jobs[r].status = "done" => jobs'[r].status = "done"]_vars

IsPrefix(s, t) == Len(s) <= Len(t) /\ SubSeq(t, 1, Len(s)) = s

\* The data lines written on a stream, in order of writing.
Written(c) ==
    LET out == stream[c].out
        n == IF out # <<>> /\ out[Len(out)].ev = "done" THEN Len(out) - 1 ELSE Len(out)
    IN  [i \in 1..n |-> out[i].line]

\* C2: a client that opened its stream while the job was pending has been
\* sent, once the stream has ended, every line of the job's log exactly
\* once and in append order; while the stream is open the lines sent are a
\* prefix of the log.
C2_EveryLineDelivered ==
    \A c \in Clients :
        stream[c].openedPending /\ stream[c].state \in {"open", "ended"} =>
            /\ IsPrefix(Written(c), jobs[stream[c].runId].logs)
            /\ stream[c].state = "ended" =>
                   Written(c) = jobs[stream[c].runId].logs

\* C3: every log stream opened for a job of the job table eventually gets
\* its done event and ends (unless the client disconnects first).
C3_StreamEnds ==
    \A c \in Clients :
        (stream[c].state = "open") ~> (stream[c].state \in {"ended", "closed"})

(***************************************************************************)
(* generateWithP5 (services/p5Renderer.js): one call, step by step.        *)
(***************************************************************************)
frameRateValue == 30
DefaultDurationSecs == 4

\* The durationSecs argument: a number of seconds, or -1 for an omitted
\* argument, which takes the default of the parameter list.
Omitted == 0 - 1
Durations == {Omitted} \cup (0..MaxDuration)
EffectiveDuration(d) == IF d = Omitted THEN DefaultDurationSecs ELSE d

\* const totalFrames = durationSecs * frameRateValue
TotalFrames(d) == EffectiveDuration(d) * frameRateValue

\* The loop test of `for (let i = 0; i < totalFrames; i++)`.
LoopContinuesOffByOne(i, total) == i <= total
LoopContinues(i, total) == i < total

P5Log(tag, n) == [tag |-> tag, n |-> n]

P5Start(d) ==
    [pc |-> "start", duration |-> d, totalFrames |-> 0, i |-> 0,
     shots |-> <<>>, draws |-> 0, browser |-> "none", encoder |-> "none",
     outDir |-> FALSE, framesDir |-> FALSE, logs |-> <<>>,
     result |-> "none", error |-> NoError,
     launches |-> 0, encoderSpawns |-> 0, path |-> <<>>]

p5Rest == <<jobs, req, stream, manim, fs, det, health>>

\* Steps 1 and 2: the directories and the sketch and wrapper files, up to
\* the await of detectChrome.
P5Setup ==
    /\ p5.pc = "start"
    /\ p5' = [p5 EXCEPT !.pc = "detect", !.outDir = TRUE]
    /\ UNCHANGED p5Rest

\* An await of the call throws: the promise rejects where the call stands.
P5Throw(msg, lines) ==
    p5' = [p5 EXCEPT !.pc = "done", !.result = "rejected", !.error = msg,
                     !.logs = @ \o lines]

\* A detection step that logs the failure and goes on to the launch.
P5DetectSwallow ==
    /\ p5.pc = "detect"
    /\ \/ p5' = [p5 EXCEPT !.pc = "launch",
                           !.logs = Append(@, P5Log("Found Chrome at", 0))]
       \/ p5' = [p5 EXCEPT !.pc = "launch",
                           !.logs = Append(@, P5Log("Chrome detection failed", 0))]
    /\ UNCHANGED p5Rest

\* Step 3: detectChrome returns or throws.
P5Detect ==
    /\ p5.pc = "detect"
    /\ \/ p5' = [p5 EXCEPT !.pc = "launch",
                           !.logs = Append(@, P5Log("Found Chrome at", 0))]
       \/ P5Throw(ErrChrome, <<P5Log("Chrome detection failed", 0)>>)
    /\ UNCHANGED p5Rest

\* Step 4: puppeteer.launch.
P5Launch ==
    /\ p5.pc = "launch"
    /\ \/ p5' = [p5 EXCEPT !.pc = "load", !.browser = "open", !.launches = @ + 1]
       \/ p5' = [p5 EXCEPT !.pc = "done", !.result = "rejected",
                           !.error = "browser launch failed", !.launches = @ + 1]
    /\ UNCHANGED p5Rest

\* Step 4, continued: newPage, goto and waitForFunction; then the frames
\* directory and totalFrames of step 5.
P5Load ==
    /\ p5.pc = "load"
    /\ \/ p5' = [p5 EXCEPT !.pc = "loop", !.framesDir = TRUE,
                           !.totalFrames = TotalFrames(p5.duration), !.i = 0]
       \/ P5Throw("page load failed", <<>>)
    /\ UNCHANGED p5Rest

\* The loop head followed by page.screenshot of frame i.
P5Screenshot ==
    /\ p5.pc = "loop"
    /\ LoopContinues(p5.i, p5.totalFrames)
    /\ \/ p5' = [p5 EXCEPT !.pc = "draw", !.shots = Append(@, p5.i)]
       \/ P5Throw("screenshot failed", <<>>)
    /\ UNCHANGED p5Rest

\* page.evaluate('draw()'), the 'Captured frame' line and i++.
P5Draw ==
    /\ p5.pc = "draw"
    /\ \/ p5' = [p5 EXCEPT !.pc = "loop", !.draws = @ + 1, !.i = @ + 1,
                           !.logs = Append(@, P5Log("Captured frame", p5.i + 1))]
       \/ P5Throw("draw() failed", <<>>)
    /\ UNCHANGED p5Rest

\* The loop ends: browser.close().
P5CloseBrowser ==
    /\ p5.pc = "loop"
    /\ ~LoopContinues(p5.i, p5.totalFrames)
    /\ p5' = [p5 EXCEPT !.pc = "encode", !.browser = "closed"]
    /\ UNCHANGED p5Rest

\* Step 6: the encoder is spawned.
P5SpawnEncoder ==
    /\ p5.pc = "encode"
    /\ p5' = [p5 EXCEPT !.pc = "encoding", !.encoder = "running",
                         !.encoderSpawns = @ + 1]
    /\ UNCHANGED p5Rest

\* The encoder writes to stderr.
P5EncoderOutput ==
    /\ p5.pc = "encoding"
    /\ Len(SelectSeq(p5.logs, LAMBDA l : l.tag = "ffmpeg")) < MaxRenderLogs
    /\ p5' = [p5 EXCEPT !.logs = Append(@, P5Log("ffmpeg", 0))]
    /\ UNCHANGED p5Rest

\* A close handler that spawns the encoder again after a nonzero exit.
P5EncoderCloseRetry ==
    /\ p5.pc = "encoding"
    /\ \/ p5' = [p5 EXCEPT !.pc = "done", !.encoder = "exit0",
                           !.framesDir = FALSE, !.result = "resolved"]
       \/ p5' = [p5 EXCEPT !.pc = "encode", !.encoder = "exitNonzero"]
    /\ UNCHANGED p5Rest

\* A close handler that removes the frames directory on failure too.
P5EncoderCloseCleanup ==
    /\ p5.pc = "encoding"
    /\ \/ p5' = [p5 EXCEPT !.pc = "done", !.encoder = "exit0", !.framesDir = FALSE,
                           !.result = "resolved", !.path = P5OutputPath(MRun)]
       \/ p5' = [p5 EXCEPT !.pc = "done", !.encoder = "exitNonzero", !.framesDir = FALSE,
                           !.result = "rejected", !.error = "ffmpeg error"]
    /\ UNCHANGED p5Rest

\* A close handler that resolves whatever the exit code is.
P5EncoderCloseAnyCode ==
    /\ p5.pc = "encoding"
    /\ \E e \in {"exit0", "exitNonzero"} :
          p5' = [p5 EXCEPT !.pc = "done", !.encoder = e, !.framesDir = FALSE,
                           !.result = "resolved", !.path = P5OutputPath(MRun)]
    /\ UNCHANGED p5Rest

\* The encoder's 'close' event: steps 7 and 8 on exit code 0, else the
\* rejection with 'ffmpeg error'.
P5EncoderClose ==
    /\ p5.pc = "encoding"
    /\ \/ p5' = [p5 EXCEPT !.pc = "done", !.encoder = "exit0",
                           !.logs = Append(@, P5Log("Video encoding complete", 0)),
                           !.framesDir = FALSE,
                           !.result = "resolved",
                           !.path = P5OutputPath(MRun)]
       \/ p5' = [p5 EXCEPT !.pc = "done", !.encoder = "exitNonzero",
                           !.result = "rejected", !.error = "ffmpeg error"]
    /\ UNCHANGED p5Rest

ServerIdle ==
    /\ jobs = <<>>
    /\ req = [r \in RunIds |-> OffReq]
    /\ stream = [c \in Clients |-> NoStream]

InitP5 ==
    /\ ServerIdle
    /\ \E d \in Durations : p5 = P5Start(d)
    /\ manim = ManimIdle
    /\ fs = FsIdle
    /\ det = DetIdle
    /\ health = HealthIdle

NextP5 ==
    \/ P5Setup
    \/ P5Detect
    \/ P5Launch
    \/ P5Load
    \/ P5Screenshot
    \/ P5Draw
    \/ P5CloseBrowser
    \/ P5SpawnEncoder
    \/ P5EncoderOutput
    \/ P5EncoderClose

SpecP5 == InitP5 /\ [][NextP5]_vars

\* The frame indices 0 .. n-1 in increasing order.
FirstFrames(n) == [k \in 1..n |-> k - 1]

\* C4: generateWithP5 with duration D (4 when omitted) takes exactly 30 x D
\* screenshots, of frames 0 .. 30 x D - 1 in increasing order, and spawns
\* the encoder only after the last of them.
C4_FramesBeforeEncoder ==
    /\ p5.shots = FirstFrames(Len(p5.shots))
    /\ Len(p5.shots) <= 30 * EffectiveDuration(p5.duration)
    /\ p5.encoder # "none" =>
           p5.shots = FirstFrames(30 * EffectiveDuration(p5.duration))

C4_Witness ==
    /\ p5.encoder = "exit0"
    /\ p5.duration = 1
    /\ Len(p5.shots) = 30

(***************************************************************************)
(* The files under MEDIA_DIR.  fs maps each existing path (a sequence of   *)
(* components, relative to MEDIA_DIR) to its kind and, for a file, its     *)
(* content; the content of a file is named by the path it was created at.  *)
(***************************************************************************)
GS == Comp(0, "GeneratedScene.mp4")
UNCACHED == Comp(0, "uncached_00000.mp4")
QUALITY == Comp(0, "2160p60")
PARTIALDIR == Comp(0, "partial_movie_files")

OutDir == <<Comp(MRun, "")>>
FinalVideoPath == ManimFinalPath(MRun)
RootVideoPath == <<GS>>

DirEntry == [kind |-> "dir", data |-> <<>>]
FileEntry(p) == [kind |-> "file", data |-> p]

Exists(f, p) == p \in DOMAIN f
IsFile(f, p) == Exists(f, p) /\ f[p].kind = "file"
IsDir(f, p) == Exists(f, p) /\ f[p].kind = "dir"

\* p lies under dir (strictly).
Under(dir, p) == Len(dir) < Len(p) /\ SubSeq(p, 1, Len(dir)) = dir

\* fs.mkdirSync(p, { recursive: true }) guarded by !fs.existsSync(p)
Mkdir(f, p) ==
    IF Exists(f, p) THEN f
    ELSE [q \in DOMAIN f \cup {p} |-> IF q = p THEN DirEntry ELSE f[q]]

\* fs.rmSync(p, { recursive: true, force: true })
RmRecursive(f, p) ==
    [q \in { q \in DOMAIN f : q # p /\ ~Under(p, q) } |-> f[q]]

\* A copy that writes nothing.
CopyFileNothing(f, src, dst) == f

\* fs.copyFileSync(src, dst), for a src that is a file
CopyFile(f, src, dst) ==
    [q \in DOMAIN f \cup {dst} |-> IF q = dst THEN [f[src] EXCEPT !.kind = "file"] ELSE f[q]]

\* fs.unlinkSync(p)
Unlink(f, p) == [q \in DOMAIN f \ {p} |-> f[q]]

\* What the Manim CLI may leave under its output directory: entries given
\* relative to OutDir.
Candidates ==
    { [path |-> <<GS>>, kind |-> "file"],
      [path |-> <<GS>>, kind |-> "dir"],
      [path |-> <<UNCACHED>>, kind |-> "file"],
      [path |-> <<QUALITY>>, kind |-> "dir"],
      [path |-> <<QUALITY, GS>>, kind |-> "file"],
      [path |-> <<QUALITY, PARTIALDIR>>, kind |-> "dir"],
      [path |-> <<QUALITY, PARTIALDIR, UNCACHED>>, kind |-> "file"] }

Parent(p) == SubSeq(p, 1, Len(p) - 1)

Trees ==
    { T \in SUBSET Candidates :
        /\ \A a, b \in T : a.path = b.path => a = b
        /\ \A a \in T : Len(a.path) > 1 =>
               [path |-> Parent(a.path), kind |-> "dir"] \in T }

\* The process writes the entries of T under OutDir.
WriteTree(f, T) ==
    LET new == { OutDir \o a.path : a \in T }
        kindOf(q) == (CHOOSE a \in T : OutDir \o a.path = q).kind
    IN  [q \in DOMAIN f \cup new |->
            IF q \in new
            THEN IF kindOf(q) = "dir" THEN DirEntry ELSE FileEntry(q)
            ELSE f[q]]

(***************************************************************************)
(* generateWithManim (services/manimRenderer.js).                          *)
(***************************************************************************)
\* findManimVideo(outDir): the files named GeneratedScene.mp4 under dir.
\* The search returns the first one in the order readdirSync lists the
\* entries, which is any of them; null when there is none.
FindManimVideo(f, dir) ==
    { q \in DOMAIN f : Under(dir, q) /\ IsFile(f, q) /\ q[Len(q)] = GS }

\* commonLocations, in list order, restricted to the quality folders a
\* -qk render writes.
commonLocations == << OutDir \o <<GS>>, OutDir \o <<QUALITY, GS>> >>

\* The first common location that exists, or <<>>.
FirstCommonLocation(f) ==
    LET hits == { i \in 1..Len(commonLocations) : Exists(f, commonLocations[i]) }
    IN  IF hits = {} THEN <<>>
        ELSE commonLocations[CHOOSE i \in hits : \A j \in hits : i <= j]

\* item.includes('uncached_') || item.includes('partial')
PartialName(c) == c \in {UNCACHED, PARTIALDIR}

\* A scan that never finds a partial file.
checkForPartialFilesNone(f, dir) == {}

\* checkForPartialFiles(outDir)
checkForPartialFiles(f, dir) ==
    { q \in DOMAIN f : Under(dir, q) /\ IsFile(f, q) /\ PartialName(q[Len(q)]) }

CanonicalMissing(f) == FALSE
\* fs.existsSync(finalVideoPath): the short-circuit test.
CanonicalExists(f) == Exists(f, FinalVideoPath)

CleanupSkipped(f) == f
\* The cleanup of the partial-files branch.
CleanupPartial(f) == RmRecursive(f, OutDir)

ErrIncomplete == "Manim rendering incomplete: Final video assembly failed"
ErrNotFound == "Could not find GeneratedScene.mp4"
ErrProcessing == "Error processing Manim output"
ErrExit == "Manim rendering failed"

\* What one run of the close handler does: the files afterwards, the
\* settlement it asks for (resolve with a path or reject with a message),
\* the lines it logs, the file operations it performs and its branch.
Outcome(f, kind, value, logs, ops, branch) ==
    [fs |-> f, kind |-> kind,
     path |-> IF kind = "resolved" THEN value ELSE <<>>,
     error |-> IF kind = "rejected" THEN value ELSE NoError,
     logs |-> logs, ops |-> ops, branch |-> branch]

\* The zero-exit branch of proc.on('close') once no video has been located
\* (or none that exists): the partial-files scan and what follows it.
NoVideoBranch(f, logs, ops) ==
    LET partial == checkForPartialFiles(f, OutDir)
        ops2 == ops \o <<"partialScan">>
    IN  IF partial # {}
        THEN IF Exists(f, RootVideoPath)
             THEN Outcome(CleanupPartial(Unlink(CopyFile(f, RootVideoPath, FinalVideoPath),
                                                RootVideoPath)),
                          "resolved", FinalVideoPath,
                          logs \o <<"Found partial files", "Found video in root directory",
                                    "Video successfully saved">>,
                          ops2 \o <<"copy", "unlink", "rm">>, "rootVideo")
             ELSE Outcome(CleanupPartial(f), "rejected", ErrIncomplete,
                          logs \o <<"Found partial files">>,
                          ops2 \o <<"rm">>, "incomplete")
        ELSE Outcome(f, "rejected", ErrNotFound,
                     logs \o <<"No video files found in output directory">>,
                     ops2, "notFound")

\* The zero-exit branch of proc.on('close'); found is the result of
\* findManimVideo (<<>> for null).
CloseZero(f, found) ==
    LET logs0 == <<"Manim rendering completed successfully">>
    IN  IF CanonicalExists(f)
        THEN Outcome(IF Exists(f, OutDir) THEN RmRecursive(f, OutDir) ELSE f,
                     "resolved", FinalVideoPath,
                     logs0 \o <<"Video already exists">>, <<"rm">>, "shortCircuit")
        ELSE LET common == IF found = <<>> THEN FirstCommonLocation(f) ELSE <<>>
                 path == IF found # <<>> THEN found ELSE common
                 logs1 == logs0 \o <<"Searching for GeneratedScene.mp4">>
                          \o (IF found # <<>> THEN <<"Found final video">> ELSE <<>>)
                          \o (IF common # <<>> THEN <<"Found video at common location">>
                              ELSE <<>>)
                 ops1 == <<"search">> \o (IF found = <<>> THEN <<"common">> ELSE <<>>)
             IN  IF path # <<>> /\ Exists(f, path)
                 THEN IF IsFile(f, path)
                      THEN Outcome(RmRecursive(CopyFile(f, path, FinalVideoPath), OutDir),
                                   "resolved", FinalVideoPath,
                                   logs1 \o <<"Video successfully saved">>,
                                   ops1 \o <<"copy", "rm">>, "copied")
                      \* copyFileSync throws on a directory: the catch block
                      ELSE Outcome(f, "rejected", ErrProcessing,
                                   logs1 \o <<"Error processing video">>,
                                   ops1 \o <<"copy">>, "catch")
                 ELSE NoVideoBranch(f, logs1, ops1)

\* The chunks the Manim process may write to stderr, and for each the
\* substrings among those the code tests with includes().
StderrChunks ==
    { "Animation 0: 50%|", "warning", "TypeError: use_quadratic_bezier",
      "TypeError: unexpected keyword argument", "TypeError", "AttributeError",
      "ImportError", "ModuleNotFoundError", "SyntaxError", "NameError",
      "MemoryError", "OutOfMemoryError", "FFmpeg",
      "FFmpeg: NameError", "AttributeError ... TypeError",
      "Animation 1: 10%| Error" }

Substrings(c) ==
    CASE c = "Animation 0: 50%|" -> {"Animation", "%|"}
      [] c = "warning" -> {}
      [] c = "TypeError: use_quadratic_bezier" -> {"TypeError", "use_quadratic_bezier", "error"}
      [] c = "TypeError: unexpected keyword argument" ->
             {"TypeError", "unexpected keyword argument", "error"}
      [] c = "OutOfMemoryError" -> {"OutOfMemoryError", "MemoryError", "error"}
      [] c = "FFmpeg" -> {"FFmpeg"}
      [] c = "FFmpeg: NameError" -> {"FFmpeg", "NameError", "error"}
      [] c = "AttributeError ... TypeError" -> {"AttributeError", "TypeError", "error"}
      [] c = "Animation 1: 10%| Error" -> {"Animation", "%|", "error"}
      [] OTHER -> {c, "error"}

\* stderrData.includes(sub), for the accumulated chunks
StderrIncludes(stderr, sub) == \E i \in 1..Len(stderr) : sub \in Substrings(stderr[i])

\* The label of a stderr chunk in the log.
StderrLabel(c) ==
    LET isProgress == "Animation" \in Substrings(c)
                      /\ ({"%|", "it/s"} \cap Substrings(c) # {})
        isActualError == ({"error", "traceback", "exception"} \cap Substrings(c) # {})
                         /\ ~isProgress
    IN  IF isProgress THEN "[Manim Progress]"
        ELSE IF isActualError THEN "[Manim Error]"
        ELSE "[Manim]"

\* A parser that tests for FFmpeg before the Python exceptions.
errorMessageFfmpegFirst(stderr) ==
    IF StderrIncludes(stderr, "FFmpeg") THEN "Video encoding failed"
    ELSE IF StderrIncludes(stderr, "TypeError") THEN "TypeError in generated code"
    ELSE IF StderrIncludes(stderr, "NameError")
    THEN "Variable or function name error in generated code"
    ELSE ErrExit

\* The message chosen from stderr on a nonzero exit.
errorMessage(stderr) ==
    IF StderrIncludes(stderr, "TypeError")
    THEN IF StderrIncludes(stderr, "use_quadratic_bezier")
         THEN "Code uses deprecated Manim API"
         ELSE IF StderrIncludes(stderr, "unexpected keyword argument")
         THEN "Generated code uses incorrect method parameters"
         ELSE "TypeError in generated code"
    ELSE IF StderrIncludes(stderr, "AttributeError")
    THEN "AttributeError in generated code"
    ELSE IF StderrIncludes(stderr, "ImportError")
            \/ StderrIncludes(stderr, "ModuleNotFoundError")
    THEN "Missing required Python packages for Manim rendering"
    ELSE IF StderrIncludes(stderr, "SyntaxError")
    THEN "Syntax error in generated Python code"
    ELSE IF StderrIncludes(stderr, "NameError")
    THEN "Variable or function name error in generated code"
    ELSE IF StderrIncludes(stderr, "MemoryError")
            \/ StderrIncludes(stderr, "OutOfMemoryError")
    THEN "Insufficient memory for rendering"
    ELSE IF StderrIncludes(stderr, "FFmpeg")
    THEN "Video encoding failed"
    ELSE ErrExit

\* The nonzero-exit branch of proc.on('close').
CloseNonzero(f, stderr) ==
    Outcome(IF Exists(f, OutDir) THEN RmRecursive(f, OutDir) ELSE f,
            "rejected", errorMessage(stderr),
            <<"Rendering failed with exit code", "Full error output:", "stderr">>,
            <<"rm">>, "nonzero")

ManimStart ==
    [pc |-> "start", stdout |-> 0, stderr |-> <<>>, wrote |-> FALSE,
     logs |-> <<>>, ops |-> <<>>, result |-> "none", path |-> <<>>,
     error |-> NoError, settledBy |-> "none", closed |-> FALSE, exitCode |-> 0,
     branch |-> "none", fsAtClose |-> <<>>, spawns |-> 0]

manimRest == <<jobs, req, stream, p5, det, health>>

\* Steps 1 and 2: the directories and the script, up to the await of
\* detectManim.
MSetup ==
    /\ manim.pc = "start"
    /\ fs' = Mkdir(fs, OutDir)
    /\ manim' = [manim EXCEPT !.pc = "detect",
                              !.logs = Append(@, "Manim script written")]
    /\ UNCHANGED manimRest

\* Steps 3 and 4: detectManim returns and the CLI is spawned, or
\* detectManim throws and the call rejects.
MDetect ==
    /\ manim.pc = "detect"
    /\ \/ manim' = [manim EXCEPT
                      !.pc = "running",
                      !.spawns = @ + 1,
                      !.logs = @ \o <<"Manim executable found", "Starting Manim rendering...">>]
       \/ manim' = [manim EXCEPT !.pc = "done", !.result = "rejected",
                                 !.error = ErrManim, !.settledBy = "detect"]
    /\ UNCHANGED <<fs, manimRest>>

\* proc.stdout.on('data')
MStdout ==
    /\ manim.pc = "running"
    /\ manim.stdout < MaxChunks
    /\ manim' = [manim EXCEPT !.stdout = @ + 1, !.logs = Append(@, "[Manim]")]
    /\ UNCHANGED <<fs, manimRest>>

\* A stderr handler that rejects the call on a chunk labelled as an error.
MStderrSettles(c) ==
    /\ manim.pc = "running"
    /\ Len(manim.stderr) < MaxChunks
    /\ manim' = [manim EXCEPT
          !.stderr = Append(@, c),
          !.logs = Append(@, StderrLabel(c)),
          !.result = IF @ = "none" /\ StderrLabel(c) = "[Manim Error]"
                     THEN "rejected" ELSE @,
          !.error = IF manim.result = "none" /\ StderrLabel(c) = "[Manim Error]"
                    THEN ErrExit ELSE @]
    /\ UNCHANGED <<fs, manimRest>>

\* proc.stderr.on('data')
MStderr(c) ==
    /\ manim.pc = "running"
    /\ Len(manim.stderr) < MaxChunks
    /\ manim' = [manim EXCEPT !.stderr = Append(@, c),
                              !.logs = Append(@, StderrLabel(c))]
    /\ UNCHANGED <<fs, manimRest>>

\* The running process writes its output files.
MWrites(T) ==
    /\ manim.pc = "running"
    /\ ~manim.wrote
    /\ T # {}
    /\ fs' = WriteTree(fs, T)
    /\ manim' = [manim EXCEPT !.wrote = TRUE]
    /\ UNCHANGED manimRest

\* proc.on('error'): the process could not be started.
MProcError ==
    /\ manim.pc = "running"
    /\ manim.stdout = 0 /\ manim.stderr = <<>> /\ ~manim.wrote
    /\ manim' = [manim EXCEPT !.pc = "errored", !.result = "rejected",
                              !.error = ErrStart, !.settledBy = "error",
                              !.logs = Append(@, "Process error")]
    /\ UNCHANGED <<fs, manimRest>>

\* The close handler has run with outcome o; resolve and reject have no
\* effect on a promise that is settled.
Closed(code, o) ==
    /\ fs' = o.fs
    /\ manim' = [manim EXCEPT
          !.pc = "done",
          !.closed = TRUE,
          !.exitCode = code,
          !.branch = o.branch,
          !.fsAtClose = fs,
          !.logs = @ \o o.logs,
          !.ops = @ \o o.ops,
          !.result = IF @ = "none" THEN o.kind ELSE @,
          !.path = IF manim.result = "none" THEN o.path ELSE @,
          !.error = IF manim.result = "none" THEN o.error ELSE @,
          !.settledBy = IF manim.result = "none" THEN "close" ELSE @]

\* proc.on('close') of a process that ran: exit code 0 or 1.
MClose(code) ==
    /\ manim.pc = "running"
    /\ IF code = 0
       THEN \E found \in (IF FindManimVideo(fs, OutDir) = {} THEN {<<>>}
                          ELSE FindManimVideo(fs, OutDir)) :
                Closed(code, CloseZero(fs, found))
       ELSE Closed(code, CloseNonzero(fs, manim.stderr))
    /\ UNCHANGED manimRest

\* proc.on('close') after 'error': the exit code is the negative errno.
MCloseAfterError ==
    /\ manim.pc = "errored"
    /\ Closed(0 - 2, CloseNonzero(fs, manim.stderr))
    /\ UNCHANGED manimRest

\* The files before the call: the canonical output and a video in the
\* media root may exist already.
InitialFiles ==
    { [q \in S |-> FileEntry(q)] : S \in SUBSET {FinalVideoPath, RootVideoPath} }

InitManim ==
    /\ ServerIdle
    /\ p5 = P5Idle
    /\ manim = ManimStart
    /\ fs \in InitialFiles
    /\ det = DetIdle
    /\ health = HealthIdle

NextManim ==
    \/ MSetup
    \/ MDetect
    \/ MStdout
    \/ \E c \in StderrChunks : MStderr(c)
    \/ \E T \in Trees : MWrites(T)
    \/ MProcError
    \/ \E code \in {0, 1} : MClose(code)
    \/ MCloseAfterError

SpecManim == InitManim /\ [][NextManim]_vars

(***************************************************************************)
(* Claims about generateWithManim.                                         *)
(***************************************************************************)
\* The working directory MEDIA_DIR/<runId> or anything in it exists.
WorkDirExists(f) == \E q \in DOMAIN f : q = OutDir \/ Under(OutDir, q)

\* No entry named GeneratedScene.mp4 under the working directory.
NoSceneVideo(f) == ~\E q \in DOMAIN f : Under(OutDir, q) /\ q[Len(q)] = GS

\* The case of C7: exit code 0, no canonical output, no GeneratedScene.mp4
\* under the working directory, and a partial or uncached file in it.
PartialOnly ==
    /\ manim.closed
    /\ manim.exitCode = 0
    /\ ~Exists(manim.fsAtClose, FinalVideoPath)
    /\ NoSceneVideo(manim.fsAtClose)
    /\ checkForPartialFiles(manim.fsAtClose, OutDir) # {}

RejectedIncomplete ==
    /\ manim.result = "rejected"
    /\ manim.error = ErrIncomplete
    /\ ~WorkDirExists(fs)

\* C7 as stated: on exit code 0 with no canonical output and no
\* GeneratedScene.mp4 under the working directory but a partial file in it,
\* generateWithManim rejects with the 'rendering incomplete' error and the
\* working directory is gone.
C7_Original == PartialOnly => RejectedIncomplete

\* C7, amended: the same, provided MEDIA_DIR/GeneratedScene.mp4 does not
\* exist either (with that file present the call copies it to the canonical
\* path and resolves).
C7_IncompleteRender ==
    PartialOnly /\ ~Exists(manim.fsAtClose, RootVideoPath) => RejectedIncomplete

C7_Witness ==
    /\ PartialOnly
    /\ ~Exists(manim.fsAtClose, RootVideoPath)
    /\ manim.branch = "incomplete"
    /\ Exists(manim.fsAtClose, OutDir \o <<QUALITY, PARTIALDIR, UNCACHED>>)

\* C8: on exit code 0 with the canonical output already there, the call
\* resolves to the canonical path; it neither searches the working
\* directory, nor checks the common locations, nor copies a file, and the
\* canonical file is left as it was.
C8_ShortCircuit ==
    manim.closed /\ manim.exitCode = 0 /\ Exists(manim.fsAtClose, FinalVideoPath) =>
        /\ manim.result = "resolved"
        /\ manim.path = FinalVideoPath
        /\ Range(manim.ops) \cap {"search", "common", "copy", "partialScan"} = {}
        /\ Exists(fs, FinalVideoPath)
        /\ fs[FinalVideoPath] = manim.fsAtClose[FinalVideoPath]

C8_Witness ==
    /\ manim.closed
    /\ manim.exitCode = 0
    /\ manim.branch = "shortCircuit"
    /\ IsFile(manim.fsAtClose, OutDir \o <<QUALITY, GS>>)
    /\ manim.result = "resolved"

\* C10: whenever generateWithManim has settled by a path other than the
\* short-circuit branch, the working directory MEDIA_DIR/<runId> is gone.
C10_WorkDirRemoved ==
    manim.result # "none" /\ manim.branch # "shortCircuit" => ~WorkDirExists(fs)

(***************************************************************************)
(* The tool detectors: detectChrome of the Electron build, detectChrome of *)
(* the server build (utils/detectChrome.js) and detectManim.               *)
(***************************************************************************)
Detectors == {"detectChrome (Electron)", "detectChrome", "detectManim"}

NoPath == "none"
CustomPath == "/custom/tool"

\* The paths the discovery steps after the environment variable probe, in
\* the order of the code: chrome-launcher, the which() candidates, the
\* platform path list and the registry (each list stands as one path).
Methods(d, dev) ==
    IF d = "detectManim"
    THEN << "/usr/bin/manim", "/usr/bin/manimce" >>
    ELSE IF d = "detectChrome"
    THEN << "/opt/chrome-launcher/chrome", "/usr/bin/google-chrome",
            "/usr/bin/chrome", "/usr/bin/chromium" >>
    ELSE (IF dev THEN << "/opt/chrome-launcher/chrome" >> ELSE << >>)
         \o << "/usr/bin/google-chrome", "/usr/bin/chrome", "/usr/bin/chromium",
               "/usr/bin/google-chrome-stable", "/opt/google/chrome/chrome",
               "registry chrome.exe" >>

PythonPaths == {"/usr/bin/python3", "/usr/bin/python"}

\* The paths of the model for detector d.
ToolPaths(d) ==
    Range(Methods(d, TRUE)) \cup {CustomPath}
        \cup (IF d = "detectManim" THEN PythonPaths ELSE {})

\* The first discovery step that finds an executable, or NoPath.
Discover(d, dev, exec) ==
    LET m == Methods(d, dev)
        hits == { i \in 1..Len(m) : m[i] \in exec }
    IN  IF hits = {} THEN NoPath
        ELSE m[CHOOSE i \in hits : \A j \in hits : i <= j]

ErrPython == "Python executable not found"
ErrToolNotFound(d) == IF d = "detectManim" THEN ErrManim ELSE ErrChrome

\* Steps 1.. of a detector once the cache is found empty, with the
\* discovery steps tried before the environment variable.
ResolveDiscoveryFirst(d, dev, env, exec) ==
    IF Discover(d, dev, exec) # NoPath THEN Discover(d, dev, exec)
    ELSE IF env # NoPath /\ env \in exec THEN env
    ELSE NoPath

\* Steps 1.. of a detector once the cache is found empty: the environment
\* variable if it is set and passes the access check, else the discovery
\* steps; NoPath when the detector throws.
Resolve(d, dev, env, exec) ==
    IF env # NoPath /\ env \in exec THEN env
    ELSE Discover(d, dev, exec)

\* One call of a detector: the returned path (NoPath when it throws), the
\* error thrown and the cache afterwards.
Detect(d, dev, cache, env, exec) ==
    IF cache # NoPath
    THEN [path |-> cache, error |-> NoError, cache |-> cache]
    ELSE LET p == Resolve(d, dev, env, exec)
         IN  IF p # NoPath
             THEN [path |-> p, error |-> NoError, cache |-> p]
             ELSE [path |-> NoPath,
                   error |-> IF d = "detectManim" /\ PythonPaths \cap exec = {}
                             THEN ErrPython ELSE ErrToolNotFound(d),
                   cache |-> NoPath]

\* The record of the last call: its result and what the call saw (the cache
\* before it, whether the variable's path was executable and whether the
\* discovery steps would have found another path).
NoCall ==
    [made |-> FALSE, path |-> NoPath, error |-> NoError, cachedBefore |-> NoPath,
     envExecutable |-> FALSE, otherFound |-> FALSE,
     afterReturn |-> FALSE, probed |-> FALSE]

\* Whether a call that finds the cache empty reaches an await before it
\* returns: the access probe of the variable's path, or the import of
\* chrome-launcher.  (The awaits of the Electron build's platform scan,
\* which come after the which() lookups, are left out.)
Suspends(d, dev, env) ==
    \/ env # NoPath
    \/ d = "detectChrome"
    \/ d = "detectChrome (Electron)" /\ dev

detRest == <<jobs, req, stream, p5, manim, fs, health>>

\* The first path a call has returned, once one has.
FirstReturned(r) == IF det.first = NoPath THEN r.path ELSE det.first

\* A call of the detector that returns without reaching an await: the
\* cache is set, or every step it runs is synchronous.
DetCall ==
    /\ det.calls < MaxCalls
    /\ det.cache # NoPath \/ ~Suspends(det.d, det.dev, det.env)
    /\ LET r == Detect(det.d, det.dev, det.cache, det.env, det.exec)
       IN  det' = [det EXCEPT
                     !.calls = @ + 1,
                     !.cache = r.cache,
                     !.first = FirstReturned(r),
                     !.last = [made |-> TRUE, path |-> r.path, error |-> r.error,
                               cachedBefore |-> det.cache,
                               envExecutable |-> det.env \in det.exec,
                               otherFound |-> Discover(det.d, det.dev, det.exec) \notin {NoPath, det.env},
                               afterReturn |-> det.first # NoPath,
                               probed |-> det.cache = NoPath]]
    /\ UNCHANGED detRest

\* A call finds the cache empty and suspends at its first await; the
\* access probe of the variable's path sees the machine as it is now.
DetBegin ==
    /\ det.calls < MaxCalls
    /\ det.cache = NoPath
    /\ Suspends(det.d, det.dev, det.env)
    /\ Len(det.pending) < MaxPending
    /\ det' = [det EXCEPT
                 !.calls = @ + 1,
                 !.pending = Append(@, [envExecutable |-> det.env \in det.exec,
                                        afterReturn |-> det.first # NoPath])]
    /\ UNCHANGED detRest

\* What a suspended call resolves to when it continues: the variable's
\* path if its probe succeeded, else the discovery steps on the machine as
\* it is now.  The cache is not looked at again.
ResumeDetect(d, dev, env, envOk, exec) ==
    IF env # NoPath /\ envOk
    THEN Detect(d, dev, NoPath, env, exec \cup {env})
    ELSE Detect(d, dev, NoPath, NoPath, exec)

\* A suspended call continues to its return or throw.
DetResume(i) ==
    /\ i \in 1..Len(det.pending)
    /\ LET c == det.pending[i]
           r == ResumeDetect(det.d, det.dev, det.env, c.envExecutable, det.exec)
       IN  det' = [det EXCEPT
                     !.pending = SubSeq(@, 1, i - 1) \o SubSeq(@, i + 1, Len(@)),
                     !.cache = IF r.path # NoPath THEN r.path ELSE @,
                     !.first = FirstReturned(r),
                     !.last = [made |-> TRUE, path |-> r.path, error |-> r.error,
                               cachedBefore |-> NoPath,
                               envExecutable |-> c.envExecutable,
                               otherFound |-> Discover(det.d, det.dev, det.exec) \notin {NoPath, det.env},
                               afterReturn |-> c.afterReturn,
                               probed |-> TRUE]]
    /\ UNCHANGED detRest

\* The machine changes between calls: an executable is installed.
Install(p) ==
    /\ p \in ToolPaths(det.d) \ det.exec
    /\ Cardinality(det.exec) < MaxInstalled
    /\ det' = [det EXCEPT !.exec = @ \cup {p}]
    /\ UNCHANGED detRest

\* An executable is removed (or loses its execute permission).
Remove(p) ==
    /\ p \in det.exec
    /\ det' = [det EXCEPT !.exec = @ \ {p}]
    /\ UNCHANGED detRest

\* The process starts with its environment (the override variable set to a
\* path or unset) on a machine with some executables; nothing is cached.
InitDetect ==
    /\ ServerIdle
    /\ p5 = P5Idle
    /\ manim = ManimIdle
    /\ fs = FsIdle
    /\ health = HealthIdle
    /\ \E d \in Detectors, dev \in BOOLEAN :
         \E env \in ToolPaths(d) \cup {NoPath} :
            /\ d # "detectChrome (Electron)" => dev
            /\ det = [pc |-> "on", d |-> d, dev |-> dev, env |-> env, exec |-> {},
                      cache |-> NoPath, calls |-> 0, last |-> NoCall,
                      pending |-> << >>, first |-> NoPath]

NextDetect ==
    \/ DetCall
    \/ DetBegin
    \/ \E i \in 1..MaxPending : DetResume(i)
    \/ \E p \in ToolPaths(det.d) : Install(p)
    \/ \E p \in ToolPaths(det.d) : Remove(p)

SpecDetect == InitDetect /\ [][NextDetect]_vars

\* The override variable was set to a path that was executable when the
\* last call was made.
EnvUsable == det.last.made /\ det.env # NoPath /\ det.last.envExecutable

\* C9 as stated: on any call, also one made after an earlier detection has
\* completed, with the override variable set to an executable path, the
\* detector returns exactly that path.
C9_Original == EnvUsable => det.last.path = det.env

\* C9, amended: a call made while no path is cached (no earlier call has
\* succeeded) with the override variable set to an executable path
\* returns exactly that path, whatever the other discovery steps find.
C9_EnvOverride ==
    EnvUsable /\ det.last.cachedBefore = NoPath =>
        /\ det.last.path = det.env
        /\ det.last.error = NoError
        /\ det.cache = det.env

\* A later call (an earlier one threw), nothing cached, the variable usable
\* and another discovery step would have found a different executable.
C9_Witness ==
    /\ EnvUsable
    /\ det.last.cachedBefore = NoPath
    /\ det.calls >= 2
    /\ det.last.otherFound
    /\ det.last.path = det.env

\* C11: once a detector has returned a path, every later call returns
\* that same path without running a probe or a discovery step, whatever
\* has changed on the machine in between, and the cached value is never
\* cleared or replaced.
C11_CacheNeverReplaced ==
    /\ [](det.last.made /\ det.last.afterReturn =>
            /\ det.last.path = det.first
            /\ ~det.last.probed)
    /\ [][det.cache # NoPath => det'.cache = det.cache]_vars

(***************************************************************************)
(* One render job at each of its layers: the request handler with the      *)
(* renderer as it sees it, generateWithP5 step by step, generateWithManim   *)
(* step by step.                                                            *)
(***************************************************************************)
InitJob == InitRequest \/ InitP5 \/ InitManim

NextJob == NextRequest \/ NextP5 \/ NextManim

SpecJob == InitJob /\ [][NextJob]_vars

\* C12: within one render job the text-generation API is requested at most
\* once, the renderer is called at most once, the browser is launched at
\* most once, the encoder is spawned at most once and the Manim CLI is
\* spawned at most once, whatever fails.
C12_NoSecondAttempt ==
    /\ \A r \in RunIds :
          /\ req[r].apiRequests <= 1
          /\ Len(req[r].calls) <= 1
          /\ req[r].spawned <= 1
    /\ p5.pc # "off" => p5.launches <= 1 /\ p5.encoderSpawns <= 1
    /\ manim.pc # "off" => manim.spawns <= 1

\* The encoder has failed and the call has rejected after one launch and
\* one encoder process.
C12_Witness ==
    /\ p5.pc = "done"
    /\ p5.encoder = "exitNonzero"
    /\ p5.result = "rejected"
    /\ p5.launches = 1
    /\ p5.encoderSpawns = 1

(***************************************************************************)
(* Further claims about the HTTP server.                                   *)
(***************************************************************************)
\* The job table alone: several requests, no log stream.
NextTable == \E r \in RunIds : RequestStep(r, SampleResponses)

SpecTable == InitServer /\ [][NextTable]_vars

\* One job and the log streams of several clients (a stream asked for an
\* id that is not in the table is answered 404).
NextStream ==
    \/ RequestStep(MRun, SampleResponses)
    \/ \E c \in Clients, id \in RunIds : OpenStream(c, id)
    \/ \E c \in Clients : PollTick(c)
    \/ \E c \in Clients : ClientClose(c)

SpecStream == InitServer /\ [][NextStream]_vars

\* C13: a job's log list is append-only (at every step the old list is a
\* prefix of the new one) and no job entry is ever removed from the table.
C13_LogsAppendOnly ==
    [][\A r \in DOMAIN jobs :
          /\ r \in DOMAIN jobs'
          /\ IsPrefix(jobs[r].logs, jobs'[r].logs)]_vars

\* Two jobs in the table, one of them done after renderer output and the
\* lines of a late 'close' event.
C13_Witness ==
    /\ DOMAIN jobs = RunIds
    /\ \E r \in RunIds :
          /\ jobs[r].status = "done"
          /\ req[r].rlogs > 0
          /\ Len(jobs[r].logs) >= 9
          /\ jobs[r].logs[Len(jobs[r].logs)] = CloseAfterErrorLines(r)[3]

(***************************************************************************)
(* Further claims about generateWithManim.                                 *)
(***************************************************************************)
\* The files named GeneratedScene.mp4 under the working directory when the
\* process closed.
SceneVideosAtClose == FindManimVideo(manim.fsAtClose, OutDir)

\* The process closed with exit code 0 and the canonical output did not
\* exist.
ClosedZeroFresh ==
    /\ manim.closed
    /\ manim.exitCode = 0
    /\ ~Exists(manim.fsAtClose, FinalVideoPath)

\* C14: when the CLI exits with code 0, the canonical output does not exist
\* and a file named GeneratedScene.mp4 exists anywhere under the working
\* directory, the call resolves to MEDIA_DIR/<runId>.mp4, that file exists
\* with the content of a located file, and the working directory is gone.
C14_VideoCopied ==
    ClosedZeroFresh /\ SceneVideosAtClose # {} =>
        /\ manim.result = "resolved"
        /\ manim.path = FinalVideoPath
        /\ IsFile(fs, FinalVideoPath)
        /\ \E q \in SceneVideosAtClose : fs[FinalVideoPath].data = manim.fsAtClose[q].data
        /\ ~WorkDirExists(fs)

\* The video was in a quality folder, next to partial files.
C14_Witness ==
    /\ ClosedZeroFresh
    /\ SceneVideosAtClose = {OutDir \o <<QUALITY, GS>>}
    /\ checkForPartialFiles(manim.fsAtClose, OutDir) # {}
    /\ manim.result = "resolved"
    /\ manim.branch = "copied"

\* The signatures of C15 in their order: the strings of which one must
\* occur, the strings of which one must occur as well (none for most), and
\* the message.
SignatureOrder ==
    << [has |-> {"TypeError"}, also |-> {"use_quadratic_bezier"},
        msg |-> "Code uses deprecated Manim API"],
       [has |-> {"TypeError"}, also |-> {"unexpected keyword argument"},
        msg |-> "Generated code uses incorrect method parameters"],
       [has |-> {"TypeError"}, also |-> {}, msg |-> "TypeError in generated code"],
       [has |-> {"AttributeError"}, also |-> {},
        msg |-> "AttributeError in generated code"],
       [has |-> {"ImportError", "ModuleNotFoundError"}, also |-> {},
        msg |-> "Missing required Python packages for Manim rendering"],
       [has |-> {"SyntaxError"}, also |-> {},
        msg |-> "Syntax error in generated Python code"],
       [has |-> {"NameError"}, also |-> {},
        msg |-> "Variable or function name error in generated code"],
       [has |-> {"MemoryError", "OutOfMemoryError"}, also |-> {},
        msg |-> "Insufficient memory for rendering"],
       [has |-> {"FFmpeg"}, also |-> {}, msg |-> "Video encoding failed"] >>

SignatureOccurs(sig, stderr) ==
    /\ \E n \in sig.has : StderrIncludes(stderr, n)
    /\ sig.also = {} \/ \E n \in sig.also : StderrIncludes(stderr, n)

\* The message of the first signature of the order that occurs in stderr,
\* the generic message when none does.
FirstSignatureMessage(stderr) ==
    LET hits == { i \in 1..Len(SignatureOrder) : SignatureOccurs(SignatureOrder[i], stderr) }
    IN  IF hits = {} THEN ErrExit
        ELSE SignatureOrder[CHOOSE i \in hits : \A j \in hits : i <= j].msg

\* The process ran and exited with a nonzero code.
ClosedNonzero == manim.closed /\ manim.exitCode > 0

\* C15: on a nonzero exit the call rejects with the message of the first
\* signature, in the fixed order, that occurs in the captured stderr (the
\* generic 'Manim rendering failed' when none occurs), and the working
\* directory has been deleted.
C15_FirstSignatureWins ==
    ClosedNonzero =>
        /\ manim.result = "rejected"
        /\ manim.error = FirstSignatureMessage(manim.stderr)
        /\ ~WorkDirExists(fs)

\* stderr held two signatures and the earlier one of the order won, with
\* files of the render in the working directory.
C15_Witness ==
    /\ ClosedNonzero
    /\ StderrIncludes(manim.stderr, "FFmpeg")
    /\ manim.error = "Variable or function name error in generated code"
    /\ WorkDirExists(manim.fsAtClose)
    /\ manim.wrote

\* The case of C16: exit code 0, no canonical output and no entry named
\* GeneratedScene.mp4 under the working directory.
NothingLocated == ClosedZeroFresh /\ NoSceneVideo(manim.fsAtClose)

\* The files under the working directory, at the time of the close, whose
\* name marks them as partial or uncached.
PartialAtClose ==
    { q \in DOMAIN manim.fsAtClose :
        /\ Len(q) > Len(OutDir)
        /\ SubSeq(q, 1, Len(OutDir)) = OutDir
        /\ manim.fsAtClose[q].kind = "file"
        /\ q[Len(q)] \in {UNCACHED, PARTIALDIR} }

\* Exactly one of the two errors is raised: 'incomplete' if and only if a
\* partial or uncached file exists under the working directory.
OneOfTwoErrors ==
    /\ manim.result = "rejected"
    /\ manim.error = (IF PartialAtClose # {} THEN ErrIncomplete ELSE ErrNotFound)

\* C16 as stated: when the CLI exits with code 0 and no GeneratedScene.mp4
\* is located, the call rejects with 'incomplete' if and only if a partial
\* file exists under the working directory, else with 'Could not find'.
C16_Original == NothingLocated => OneOfTwoErrors

\* C16, amended: the same, unless partial files exist and the media root
\* holds GeneratedScene.mp4; then that file is moved to the canonical path
\* and the call resolves.
C16_IncompleteOrNotFound ==
    NothingLocated =>
        IF PartialAtClose # {} /\ Exists(manim.fsAtClose, RootVideoPath)
        THEN /\ manim.result = "resolved"
             /\ manim.path = FinalVideoPath
             /\ manim.error = NoError
        ELSE OneOfTwoErrors

\* No partial file, only an empty directory with 'partial' in its name,
\* and a video in the media root: 'Could not find'.
C16_Witness ==
    /\ NothingLocated
    /\ Exists(manim.fsAtClose, OutDir \o <<QUALITY, PARTIALDIR>>)
    /\ Exists(manim.fsAtClose, RootVideoPath)
    /\ PartialAtClose = {}
    /\ manim.error = ErrNotFound

(***************************************************************************)
(* Further claims about generateWithP5.                                    *)
(***************************************************************************)
\* C17: when generateWithP5 returns, it returns the one path
\* MEDIA_DIR/<runId>/animation.mp4, the frames directory has been deleted,
\* the browser has been closed and the encoder has exited with code 0.
C17_SuccessfulReturn ==
    /\ p5.pc # "off" /\ p5.result = "resolved" =>
          /\ p5.path = << Comp(MRun, ""), Comp(0, "animation.mp4") >>
          /\ ~p5.framesDir
          /\ p5.browser = "closed"
          /\ p5.encoder = "exit0"
          /\ p5.outDir
    /\ p5.pc # "off" /\ p5.result # "resolved" => p5.path = << >>

\* A successful return after frames were captured and the encoder wrote
\* to stderr.
C17_Witness ==
    /\ p5.pc = "done"
    /\ p5.result = "resolved"
    /\ Len(p5.shots) = 30
    /\ \E i \in 1..Len(p5.logs) : p5.logs[i].tag = "ffmpeg"

\* C20: when the encoder exits with a nonzero code, generateWithP5 rejects
\* with 'ffmpeg error', returns no path, and the frames directory is left
\* in place.
C20_EncoderFailure ==
    p5.pc # "off" /\ p5.encoder = "exitNonzero" =>
        /\ p5.pc = "done"
        /\ p5.result = "rejected"
        /\ p5.error = "ffmpeg error"
        /\ p5.path = << >>
        /\ p5.framesDir

\* The encoder failed after frames were captured.
C20_Witness ==
    /\ p5.encoder = "exitNonzero"
    /\ p5.result = "rejected"
    /\ Len(p5.shots) = 60
    /\ p5.framesDir

(***************************************************************************)
(* Claims about the done event of a log stream.                            *)
(***************************************************************************)
\* The positions of done events in what was written to client c.
DoneEvents(c) == { i \in 1..Len(stream[c].out) : stream[c].out[i].ev = "done" }

\* C19: on a log stream the done event is written at most once, only when
\* the job's status is 'done', after every data line and with nothing
\* after it; it carries the job's result path when the render succeeded
\* and null when it failed.
C19_DoneEventLast ==
    \A c \in Clients :
        LET out == stream[c].out
            id == stream[c].runId
        IN  /\ Cardinality(DoneEvents(c)) <= 1
            /\ DoneEvents(c) # {} =>
                  /\ DoneEvents(c) = {Len(out)}
                  /\ stream[c].state = "ended"
                  /\ jobs[id].status = "done"
                  /\ out[Len(out)].videoPath = jobs[id].videoPath
                  /\ IF req[id].result # << >>
                     THEN /\ out[Len(out)].videoPath = VideoUrl(req[id].result)
                          /\ out[Len(out)].videoPath # NullVideo
                     ELSE out[Len(out)].videoPath = NullVideo
            /\ stream[c].state = "ended" => DoneEvents(c) # {}

\* A stream that ended after data lines with the path of a finished
\* render.
C19_Witness ==
    \E c \in Clients :
        /\ stream[c].state = "ended"
        /\ stream[c].openedPending
        /\ Len(stream[c].out) >= 5
        /\ stream[c].out[Len(stream[c].out)].videoPath # NullVideo

\* A stream that ended with null after a failed render.
C19_WitnessFailed ==
    \E c \in Clients :
        /\ stream[c].state = "ended"
        /\ req[stream[c].runId].error = ErrRender
        /\ stream[c].out[Len(stream[c].out)].videoPath = NullVideo

(***************************************************************************)
(* services/healthCheck.js: performHealthCheck.  The machine is the set of *)
(* things the probes can find; a report is built from the probes'          *)
(* outcomes, requirement by requirement.                                   *)
(***************************************************************************)
\* What the probes look for: detectChrome, require('express'/'which'),
\* detectManim, which python3 / python, which latex / pdflatex.
Probes == {"chrome", "express", "manim", "python3", "python", "latex", "pdflatex"}

\* The engine argument: the route passes any query string on.
HealthEngines == {"p5", "manim", "both", "other"}

healthRest == <<jobs, req, stream, p5, manim, fs, det>>

NoResult == << >>

\* checkPython: python3 first, then python.
checkPython(m) == "python3" \in m \/ "python" \in m

\* detectTeX succeeds on latex or pdflatex; the path is then read with
\* which.sync('latex'), which throws inside the same try when only
\* pdflatex is installed.
checkLatex(m) == ("latex" \in m \/ "pdflatex" \in m) /\ "latex" \in m

checkP5Requirements(m) ==
    [chrome      |-> [critical |-> TRUE, available |-> "chrome" \in m],
     nodeModules |-> [critical |-> FALSE, available |-> "express" \in m]]

checkManimRequirements(m) ==
    [manim  |-> [critical |-> TRUE, available |-> "manim" \in m],
     python |-> [critical |-> TRUE, available |-> checkPython(m)],
     latex  |-> [critical |-> FALSE, available |-> checkLatex(m)]]

\* Math.round of num / den for non-negative operands: halves go up.
MathRound(num, den) == (2 * num + den) \div (2 * den)

\* A readiness that asks for every requirement, critical or not.
calculateReadinessAll(requirements) ==
    LET keys == DOMAIN requirements
        critical == { k \in keys : requirements[k].critical }
        availableCritical == { k \in critical : requirements[k].available }
        total == Cardinality(keys)
        available == Cardinality({ k \in keys : requirements[k].available })
    IN  [ready |-> available = total,
         criticalMet |-> Cardinality(availableCritical),
         criticalTotal |-> Cardinality(critical),
         overallScore |-> MathRound(available * 100, total),
         totalRequirements |-> total,
         metRequirements |-> available]

\* A readiness whose score is cut off instead of rounded.
calculateReadinessFloor(requirements) ==
    LET keys == DOMAIN requirements
        critical == { k \in keys : requirements[k].critical }
        availableCritical == { k \in critical : requirements[k].available }
        total == Cardinality(keys)
        available == Cardinality({ k \in keys : requirements[k].available })
    IN  [ready |-> Cardinality(availableCritical) = Cardinality(critical),
         criticalMet |-> Cardinality(availableCritical),
         criticalTotal |-> Cardinality(critical),
         overallScore |-> (available * 100) \div total,
         totalRequirements |-> total,
         metRequirements |-> available]

calculateReadiness(requirements) ==
    LET keys == DOMAIN requirements
        critical == { k \in keys : requirements[k].critical }
        availableCritical == { k \in critical : requirements[k].available }
        total == Cardinality(keys)
        available == Cardinality({ k \in keys : requirements[k].available })
    IN  [ready |-> Cardinality(availableCritical) = Cardinality(critical),
         criticalMet |-> Cardinality(availableCritical),
         criticalTotal |-> Cardinality(critical),
         overallScore |-> MathRound(available * 100, total),
         totalRequirements |-> total,
         metRequirements |-> available]

HealthStart(engine, m) ==
    [pc |-> "start", engine |-> engine, machine |-> m,
     p5 |-> NoResult, manim |-> NoResult,
     p5Readiness |-> NoResult, manimReadiness |-> NoResult,
     available |-> FALSE]

\* if (engine === 'p5' || engine === 'both') results.p5 = ...
HealthP5 ==
    /\ health.pc = "start"
    /\ health' = [health EXCEPT
            !.pc = "p5",
            !.p5 = IF health.engine \in {"p5", "both"}
                   THEN checkP5Requirements(health.machine) ELSE @]
    /\ UNCHANGED healthRest

\* if (engine === 'manim' || engine === 'both') results.manim = ...
HealthManim ==
    /\ health.pc = "p5"
    /\ health' = [health EXCEPT
            !.pc = "manim",
            !.manim = IF health.engine \in {"manim", "both"}
                      THEN checkManimRequirements(health.machine) ELSE @]
    /\ UNCHANGED healthRest

\* The readiness of each report that was made, then the return.
HealthReturn ==
    /\ health.pc = "manim"
    /\ health' = [health EXCEPT
            !.pc = "returned",
            !.p5Readiness = IF health.p5 # NoResult
                            THEN calculateReadiness(health.p5) ELSE @,
            !.manimReadiness = IF health.manim # NoResult
                               THEN calculateReadiness(health.manim) ELSE @]
    /\ UNCHANGED healthRest

\* `report?.available || false`: the property of that name of the report
\* object, false when the report or the property is missing.
OptionalAvailable(report) ==
    IF "available" \in DOMAIN report THEN report["available"] ELSE FALSE

\* The `available` of the record returned by ipcMain.handle('check-health').
checkHealthAvailable(engine, results) ==
    IF engine = "p5" THEN OptionalAvailable(results.p5)
    ELSE IF engine = "manim" THEN OptionalAvailable(results.manim)
    ELSE OptionalAvailable(results.p5) \/ OptionalAvailable(results.manim)

\* The IPC handler continues after performHealthCheck and returns.
CheckHealthAnswer ==
    /\ health.pc = "returned"
    /\ health' = [health EXCEPT
            !.pc = "answered",
            !.available = checkHealthAvailable(health.engine, health)]
    /\ UNCHANGED healthRest

InitHealth ==
    /\ ServerIdle
    /\ p5 = P5Idle
    /\ manim = ManimIdle
    /\ fs = FsIdle
    /\ det = DetIdle
    /\ \E engine \in HealthEngines, m \in SUBSET Probes :
            health = HealthStart(engine, m)

NextHealth ==
    \/ HealthP5
    \/ HealthManim
    \/ HealthReturn
    \/ CheckHealthAnswer

SpecHealth == InitHealth /\ [][NextHealth]_vars

\* The requirement reports paired with their readiness in a returned call.
Reports ==
    IF health.pc \notin {"returned", "answered"} THEN {}
    ELSE { rp \in { <<health.p5, health.p5Readiness>>,
                    <<health.manim, health.manimReadiness>> } :
               rp[1] # NoResult }

\* The same report with the availability of requirement k the other way.
Flipped(rq, k) == [rq EXCEPT ![k].available = ~@]

\* What the machine holds of the requirements tagged critical.
CriticalOnMachine(rq) ==
    /\ "chrome" \in DOMAIN rq => "chrome" \in health.machine
    /\ "manim" \in DOMAIN rq =>
          /\ "manim" \in health.machine
          /\ health.machine \cap {"python3", "python"} # {}

\* C18: in a readiness report ready is true exactly when every requirement
\* tagged critical is available; criticalMet <= criticalTotal,
\* metRequirements <= totalRequirements, overallScore is the rounded
\* percentage metRequirements / totalRequirements; the availability of a
\* non-critical requirement never changes ready.
C18_Readiness ==
    \A rp \in Reports :
        LET rq == rp[1]
            rd == rp[2]
        IN  /\ rd # NoResult
            /\ rd.ready <=> \A k \in DOMAIN rq : rq[k].critical => rq[k].available
            /\ rd.ready <=> CriticalOnMachine(rq)
            /\ rd.criticalTotal = Cardinality({ k \in DOMAIN rq : rq[k].critical })
            /\ rd.criticalMet <= rd.criticalTotal
            /\ rd.totalRequirements = Cardinality(DOMAIN rq)
            /\ rd.metRequirements <= rd.totalRequirements
            /\ rd.overallScore \in 0..100
            /\ 2 * rd.overallScore * rd.totalRequirements
                  <= 200 * rd.metRequirements + rd.totalRequirements
            /\ 2 * rd.overallScore * rd.totalRequirements
                  > 200 * rd.metRequirements - rd.totalRequirements
            /\ \A k \in DOMAIN rq :
                  ~rq[k].critical =>
                      calculateReadiness(Flipped(rq, k)).ready = rd.ready

\* A report that is ready although a non-critical requirement is missing,
\* with a score that had to be rounded up.
C18_Witness ==
    /\ health.pc = "returned"
    /\ health.manim # NoResult
    /\ health.manimReadiness.ready
    /\ ~health.manim.latex.available
    /\ health.manimReadiness.overallScore = 67

\* A report that is not ready because a critical requirement is missing.
C18_WitnessNotReady ==
    /\ health.pc = "returned"
    /\ health.p5 # NoResult
    /\ ~health.p5Readiness.ready
    /\ health.p5.nodeModules.available

(***************************************************************************)
(* Claims about the failures of generateWithP5.                            *)
(***************************************************************************)
\* The 'Chrome detection failed' lines logged by the call.
DetectionFailedLines ==
    SelectSeq(p5.logs, LAMBDA l : l.tag = "Chrome detection failed")

\* C21: if browser detection fails in generateWithP5, the detector's error
\* is rethrown unchanged after one 'Chrome detection failed' log line, and
\* no browser is launched, no frame is captured and no encoder is spawned.
C21_DetectionFailure ==
    /\ p5.pc # "off" /\ DetectionFailedLines # << >> =>
          /\ Len(DetectionFailedLines) = 1
          /\ p5.logs = DetectionFailedLines
          /\ p5.pc = "done"
          /\ p5.result = "rejected"
          /\ p5.error = ErrChrome
          /\ p5.launches = 0
          /\ p5.browser = "none"
          /\ p5.shots = << >>
          /\ p5.draws = 0
          /\ ~p5.framesDir
          /\ p5.encoderSpawns = 0
          /\ p5.encoder = "none"
    /\ p5.pc # "off" /\ p5.error = ErrChrome => DetectionFailedLines # << >>

\* A call that has thrown the detector's error.
C21_Witness ==
    /\ p5.pc = "done"
    /\ p5.result = "rejected"
    /\ p5.error = ErrChrome
    /\ Len(DetectionFailedLines) = 1

\* C29: on every path of generateWithP5 on which a browser has been
\* launched, the browser is closed before the call returns or throws.
C29_BrowserClosed ==
    p5.pc = "done" /\ p5.launches > 0 => p5.browser # "open"

(***************************************************************************)
(* Claims about the engine argument.                                       *)
(***************************************************************************)
\* C22: for an engine other than 'p5' and 'manim', generateCode throws the
\* invalid-engine error before any API request is made, so in both request
\* layers the renderer-stage invalid-engine branch is never reached and no
\* render task is started.
C22_InvalidEngine ==
    \A r \in RunIds :
        /\ req[r].error \notin {ErrEngineRender, ErrEngineIpc}
        /\ req[r].engine \notin {"none", "p5", "manim"} =>
              /\ req[r].pc = "done"
              /\ req[r].error = ErrEngine
              /\ req[r].apiRequests = 0
              /\ ~req[r].answered
              /\ req[r].calls = << >>
              /\ req[r].spawned = 0
              /\ req[r].response = (IF req[r].layer = "http" THEN "400" ELSE "rejected")
              /\ req[r].layer = "http" => jobs[r].logs = <<LineStarted(r)>>
              /\ req[r].layer = "ipc" =>
                    req[r].events = <<LineStarted(r), Line("Error", r, ErrEngine, 0)>>

\* A request of the IPC layer with an engine that is neither 'p5' nor
\* 'manim' has been rejected.
C22_Witness ==
    \E r \in RunIds :
        /\ req[r].engine = "other"
        /\ req[r].layer = "ipc"
        /\ req[r].response = "rejected"

\* The same for the HTTP layer.
C22_WitnessHttp ==
    \E r \in RunIds :
        /\ req[r].engine = "other"
        /\ req[r].layer = "http"
        /\ req[r].response = "400"

(***************************************************************************)
(* Claims about the events of ipcMain.handle('generate-video').            *)
(***************************************************************************)
\* The place of a log event in the order of the handler: code generation
\* started, code generation finished, rendering started, renderer lines,
\* terminal line.
EventRank(l) ==
    CASE l.tag = "Code generation started..." -> 1
      [] l.tag = "Code generation finished" -> 2
      [] l.tag = "Video rendering started using" -> 3
      [] l.tag \in {"Video generation completed successfully", "Error"} -> 5
      [] OTHER -> 4

ErrorEvents(r) == SelectSeq(req[r].events, LAMBDA l : l.tag = "Error")

\* C23: every invocation of the IPC 'generate-video' operation ends in
\* exactly one of two ways: it returns a success record after 'Video
\* generation completed successfully' was pushed as its last log event, or
\* it pushes exactly one 'Error: <message>' event and rejects with that
\* error; log events are pushed in the order code generation started, code
\* generation finished, rendering started, renderer lines, terminal line.
C23_IpcOutcome ==
    \A r \in RunIds :
        req[r].layer = "ipc" /\ req[r].pc \notin {"off", "idle"} =>
            LET ev == req[r].events
            IN  /\ ev # << >>
                /\ ev[1] = LineStarted(r)
                /\ \A i, j \in 1..Len(ev) :
                      i < j => /\ EventRank(ev[i]) <= EventRank(ev[j])
                               /\ EventRank(ev[i]) # 4 => EventRank(ev[i]) < EventRank(ev[j])
                /\ req[r].pc # "done" => EventRank(ev[Len(ev)]) # 5
                /\ req[r].pc = "done" =>
                      \/ /\ req[r].response = "success"
                         /\ req[r].error = NoError
                         /\ ErrorEvents(r) = << >>
                         /\ ev[Len(ev)] =
                               Line("Video generation completed successfully", r, "", 0)
                      \/ /\ req[r].response = "rejected"
                         /\ req[r].error # NoError
                         /\ ErrorEvents(r) = <<Line("Error", r, req[r].error, 0)>>
                         /\ ev[Len(ev)] = Line("Error", r, req[r].error, 0)

(***************************************************************************)
(* Claims about the labels of Manim's stderr chunks.                       *)
(***************************************************************************)
\* A chunk that reads as a progress bar, and one that reads as an error.
LooksLikeProgress(c) ==
    "Animation" \in Substrings(c) /\ ("%|" \in Substrings(c) \/ "it/s" \in Substrings(c))
LooksLikeError(c) ==
    \E w \in {"error", "traceback", "exception"} : w \in Substrings(c)

\* How many lines of the log carry the label.
LabelCount(label) == Len(SelectSeq(manim.logs, LAMBDA l : l = label))

\* How many chunks of stderr satisfy the test.
ChunkCount(Test(_)) == Len(SelectSeq(manim.stderr, Test))

\* The settlement a close with this exit code, stderr text and filesystem
\* leads to.
SettlementOf(code, stderr, f) ==
    IF code # 0
    THEN { [result |-> "rejected", path |-> << >>, error |-> errorMessage(stderr)] }
    ELSE { [result |-> o.kind, path |-> o.path, error |-> o.error] :
             o \in { CloseZero(f, found) :
                        found \in (IF FindManimVideo(f, OutDir) = {} THEN {<< >>}
                                   ELSE FindManimVideo(f, OutDir)) } }

\* C24: the label given to a Manim stderr chunk is exactly one of
\* '[Manim Progress]', '[Manim Error]' and '[Manim]', progress taking
\* precedence over error, and it affects only the log line emitted: whether
\* generateWithManim resolves or rejects, and with which value, depends only
\* on the exit code, the accumulated stderr text and the filesystem.
C24_LabelsOnlyLogged ==
    manim.pc # "off" =>
        /\ LabelCount("[Manim Progress]") = ChunkCount(LooksLikeProgress)
        /\ LabelCount("[Manim Error]") =
              ChunkCount(LAMBDA c : LooksLikeError(c) /\ ~LooksLikeProgress(c))
        /\ LabelCount("[Manim]") = manim.stdout +
              ChunkCount(LAMBDA c : ~LooksLikeError(c) /\ ~LooksLikeProgress(c))
        /\ manim.pc = "running" => manim.result = "none"
        /\ manim.closed /\ manim.settledBy = "close" =>
              [result |-> manim.result, path |-> manim.path, error |-> manim.error]
                 \in SettlementOf(manim.exitCode, manim.stderr, manim.fsAtClose)
        /\ manim.result # "none" => manim.settledBy \in {"detect", "error", "close"}

\* A call that resolved although a stderr chunk was labelled an error.
C24_Witness ==
    /\ manim.closed
    /\ manim.result = "resolved"
    /\ manim.stderr # << >>
    /\ LabelCount("[Manim Error]") = 1

\* A chunk that reads both as progress and as an error was labelled
\* progress.
C24_WitnessPrecedence ==
    /\ manim.pc # "off"
    /\ \E i \in 1..Len(manim.stderr) :
          LooksLikeProgress(manim.stderr[i]) /\ LooksLikeError(manim.stderr[i])
    /\ LabelCount("[Manim Progress]") = 1

(***************************************************************************)
(* Claims about jobs in flight together.                                   *)
(***************************************************************************)
\* The entry of job r differs between the two states of a step.
EntryChanged(r) ==
    \/ r \notin DOMAIN jobs
    \/ jobs'[r] # jobs[r]

\* C25: with several jobs in flight and their steps interleaved, each job's
\* log receives only lines produced by that job's own code generation and
\* renderer, its status and result path are written only by its own render
\* task, and no job's entry is modified by another job.
C25_JobsIsolated ==
    /\ [](\A r \in DOMAIN jobs :
            /\ \A i \in 1..Len(jobs[r].logs) : jobs[r].logs[i].src = r
            /\ \/ jobs[r].videoPath = NullVideo
               \/ /\ req[r].result # << >>
                  /\ jobs[r].videoPath = VideoUrl(req[r].result)
            /\ jobs[r].status = "done" => req[r].pc = "done")
    /\ [][\A r \in DOMAIN jobs' :
            EntryChanged(r) =>
                /\ req'[r] # req[r]
                /\ \A q \in RunIds \ {r} : req'[q] = req[q]
                /\ \A q \in DOMAIN jobs \ {r} : jobs'[q] = jobs[q]]_vars

\* Two jobs whose renderers run at the same time have both logged.
C25_Witness ==
    /\ {1, 2} \subseteq DOMAIN jobs
    /\ \A r \in {1, 2} :
          /\ req[r].pc = "running"
          /\ req[r].rlogs >= 1
          /\ Len(jobs[r].logs) >= 4

(***************************************************************************)
(* Claims about the result paths of the HTTP variant.                      *)
(***************************************************************************)
\* app.use('/videos', express.static(MEDIA_DIR)): the file, relative to
\* MEDIA_DIR, that a result path names.
StaticFile(url) == <<url.file>>

\* The jobs whose render succeeded.
Succeeded == { r \in DOMAIN jobs : jobs[r].status = "done" /\ req[r].result # << >> }

\* C26: for any two distinct jobs that complete successfully in the HTTP
\* variant the result paths are distinct, and each result path, resolved
\* against the static video root, names the video file that job's own
\* renderer produced.
C26_ResultPathsOwnFile ==
    /\ \A r \in Succeeded :
          /\ jobs[r].videoPath.prefix = "/videos/"
          /\ StaticFile(jobs[r].videoPath) = req[r].result
    /\ \A r, q \in Succeeded : r # q => jobs[r].videoPath # jobs[q].videoPath

\* The same holds of the jobs rendered with Manim.
C26_ManimOnly ==
    /\ \A r \in Succeeded :
          req[r].engine = "manim" =>
              /\ jobs[r].videoPath.prefix = "/videos/"
              /\ StaticFile(jobs[r].videoPath) = req[r].result
    /\ \A r, q \in Succeeded :
          r # q /\ req[r].engine = "manim" /\ req[q].engine = "manim" =>
              jobs[r].videoPath # jobs[q].videoPath

(***************************************************************************)
(* Claims about the log of a finished job.                                 *)
(***************************************************************************)
LastLine(r) == jobs[r].logs[Len(jobs[r].logs)]

\* C27: once a job's status is 'done' no further line is appended to its
\* log: the last line of a done job's log is 'Rendering complete' (result
\* path non-null) or a line starting with 'Error:' (result path null), also
\* when the Manim process emits both an 'error' and a later 'close' event.
C27_DoneLogFinal ==
    /\ [](\A r \in DOMAIN jobs :
            jobs[r].status = "done" =>
                \/ /\ LastLine(r).tag = "Rendering complete"
                   /\ jobs[r].videoPath # NullVideo
                \/ /\ LastLine(r).tag = "Error"
                   /\ jobs[r].videoPath = NullVideo)
    /\ [][\A r \in DOMAIN jobs :
            jobs[r].status = "done" => jobs'[r].logs = jobs[r].logs]_vars

\* The same for the jobs whose process did not emit 'error'.
C27_WithoutProcessError ==
    \A r \in DOMAIN jobs :
        jobs[r].status = "done" /\ req[r].error # ErrStart =>
            \/ /\ LastLine(r).tag = "Rendering complete"
               /\ jobs[r].videoPath # NullVideo
            \/ /\ LastLine(r).tag = "Error"
               /\ jobs[r].videoPath = NullVideo

(***************************************************************************)
(* Claims about ipcMain.handle('check-health').                            *)
(***************************************************************************)
\* C28: the IPC 'check-health' operation for engine 'p5' (respectively
\* 'manim') returns available = true whenever that engine's readiness
\* report has ready = true, and available = false otherwise.
C28_AvailableIsReady ==
    health.pc = "answered" =>
        /\ health.engine = "p5" => (health.available <=> health.p5Readiness.ready)
        /\ health.engine = "manim" => (health.available <=> health.manimReadiness.ready)

\* What the operation returns instead: available is false on every machine.
C28_NeverAvailable == health.pc = "answered" => ~health.available

=============================================================================
